---------------------------- MODULE Spec2Model ----------------------------
(***************************************************************************)
(* poly-db-mcp: the adapter registry, the dispatch gateway (index.js and   *)
(* server.js) and the connection lifecycle of the backend adapters.        *)
(*                                                                         *)
(* The specifications of this module share its variables:                  *)
(*   SpecRegistry  the tool-registration loop walking the adapter registry *)
(*   Spec          tool invocations through the gateway's wrappers and the *)
(*                 HTTP tools/call fallback                                *)
(*   SpecLife      connect / disconnect / isConnected / operation handlers *)
(*                 of the adapters, run by concurrently in-flight          *)
(*                 invocations that interleave at every await              *)
(***************************************************************************)
EXTENDS Integers, Sequences, FiniteSets, TLC

VARIABLES
    \* ---- registry / gateway ----
    entry,        \* which entry point the process runs: "index" or "server"
    regA,         \* registration loop: index of the adapter being walked
    regT,         \* registration loop: index of the next tool of that adapter
    registered,   \* sequence of server.tool(...) registrations made so far
    req,          \* the invocation being answered
    resp,         \* what the gateway gave back for it
    ran,          \* handlers run for it, as <<adapter key, tool name>>
    extra,        \* adapter modules added to the registry literal (none as built)
    sdkRejects,   \* the SDK's server.tool throws on a name it already holds
    regFailed,    \* registration loop: server.tool has thrown
    meta,         \* what a meta tool (db_list, db_help, db_status) did and reported
    cells,        \* the module-level connection variable of every adapter module
    leased,       \* mariadb: connections of the pool handed out and not released
    txn,          \* what the last pool probe or transaction handler did
    store,        \* lmdb: the entry Deno.Kv holds under every key
    live,         \* lmdb history: keys put with success and not deleted since
    kvLast,       \* lmdb: the handler that ran last and what it reported
    \* ---- adapter lifecycle ----
    target,         \* the adapter module the invocations call into
    duckConfigured, \* duckdb: DUCKDB_HTTP_URL is set in the environment
    reachable,      \* the adapter's backend answers right now
    everUp,         \* history: the backend has been reachable at some point
    everDown,       \* history: the backend has been unreachable at some point
    slot,           \* the module-level handle variable: 0 is null / None
    mongoDb,        \* mongodb: the module-level db variable, by its client
    sqlJsLoaded,    \* Sqlite.res: sqlJs holds the loaded library
    veriUrl,        \* verisimdb: url is set
    duckAvailable,  \* duckdb: the cached answer of the last connect()
    hstate,         \* status of every handle constructed so far
    created,        \* number of handles constructed so far
    calls,          \* number of invocations started so far
    discCalled,     \* history: disconnect() has been called
    last,           \* history: the invocation that completed most recently
    pc,             \* per invocation: the await it is suspended at
    op,             \* per invocation: the exported function that was called
    conn,           \* per invocation: the handle held in a local variable
    ret,            \* per invocation: what it returned or threw
    pre             \* per invocation: history taken when it was started

regVars == <<entry, regA, regT, registered, extra, sdkRejects, regFailed>>

txnVars == <<leased, txn>>

kvVars == <<store, live, kvLast>>

gwVars == <<regVars, req, resp, ran, meta, cells, txnVars, kvVars>>

envVars == <<target, duckConfigured, reachable, everUp, everDown>>

lifeVars == <<envVars, slot, mongoDb, sqlJsLoaded, veriUrl, duckAvailable,
              hstate, created, calls, discCalled, last, pc, op, conn, ret, pre>>

(***************************************************************************)
(* JavaScript values.  undefined and an absent JSON key are kept apart     *)
(* from every string the program produces.                                 *)
(***************************************************************************)
Undefined == "<undefined>"
Absent == "<absent>"

(***************************************************************************)
(* The registry: the `adapters` object literals.  Object.entries walks the *)
(* keys in insertion order.                                                *)
(***************************************************************************)
IndexAdapters ==
    << "surrealdb", "dragonfly", "xtdb", "sqlite", "duckdb", "qdrant",
       "meilisearch", "mariadb", "memcached", "lmdb", "itop" >>

ServerAdapters ==
    << "surrealdb", "dragonfly", "xtdb", "sqlite", "duckdb", "qdrant",
       "meilisearch", "mariadb", "memcached", "lmdb", "itop", "postgresql",
       "mongodb", "neo4j", "elasticsearch", "influxdb", "arangodb",
       "virtuoso", "couchdb", "cassandra" >>

EntryPoints == {"index", "server"}

Adapters(e) == IF e = "index" THEN IndexAdapters ELSE ServerAdapters

\* `export const name` of the module registered under key a.
AdapterName(a) ==
    CASE a = "surrealdb"     -> "surrealdb"
      [] a = "dragonfly"     -> "dragonfly"
      [] a = "xtdb"          -> "xtdb"
      [] a = "sqlite"        -> "sqlite"
      [] a = "duckdb"        -> "duckdb"
      [] a = "qdrant"        -> "qdrant"
      [] a = "meilisearch"   -> "meilisearch"
      [] a = "mariadb"       -> "mariadb"
      [] a = "memcached"     -> "memcached"
      [] a = "lmdb"          -> "lmdb"
      [] a = "itop"          -> "itop"
      [] a = "postgresql"    -> "postgresql"
      [] a = "mongodb"       -> "mongodb"
      [] a = "neo4j"         -> "neo4j"
      [] a = "elasticsearch" -> "elasticsearch"
      [] a = "influxdb"      -> "influxdb"
      [] a = "arangodb"      -> "arangodb"
      [] a = "virtuoso"      -> "virtuoso"
      [] a = "couchdb"       -> "couchdb"
      [] a = "cassandra"     -> "cassandra"

\* The keys of each module's `export const tools`, in declaration order.
SurrealdbTools ==
    << "surreal_query", "surreal_select", "surreal_create", "surreal_update",
       "surreal_merge", "surreal_delete", "surreal_relate",
       "surreal_graph_traverse", "surreal_info", "surreal_live" >>

\* A copy-pasted tool left under its old name in a second adapter.
DragonflyToolsClash ==
    << "redis_get", "memcached_get" >>

DragonflyTools ==
    << "redis_get", "redis_set", "redis_del", "redis_keys", "redis_hget",
       "redis_hgetall", "redis_hset", "redis_lpush", "redis_lrange",
       "redis_sadd", "redis_smembers", "redis_zadd", "redis_zrange",
       "redis_info", "redis_dbsize" >>

XtdbTools ==
    << "xtdb_status", "xtdb_query", "xtdb_put", "xtdb_delete", "xtdb_entity",
       "xtdb_history", "xtdb_as_of", "xtdb_tx", "xtdb_recent_txs" >>

SqliteTools ==
    << "sqlite_query", "sqlite_exec", "sqlite_tables", "sqlite_schema",
       "sqlite_insert", "sqlite_update", "sqlite_delete",
       "sqlite_transaction" >>

DuckdbTools ==
    << "duck_query", "duck_read_csv", "duck_read_parquet", "duck_tables" >>

QdrantTools ==
    << "qdrant_collections", "qdrant_collection_info",
       "qdrant_create_collection", "qdrant_delete_collection",
       "qdrant_upsert", "qdrant_search", "qdrant_search_batch", "qdrant_get",
       "qdrant_delete", "qdrant_scroll", "qdrant_count",
       "qdrant_create_index" >>

MeilisearchTools ==
    << "meili_search", "meili_indexes", "meili_create_index",
       "meili_delete_index", "meili_add_documents", "meili_get_document",
       "meili_get_documents", "meili_delete_document",
       "meili_delete_documents", "meili_settings", "meili_update_settings",
       "meili_stats", "meili_tasks" >>

MariadbTools ==
    << "maria_query", "maria_exec", "maria_databases", "maria_tables",
       "maria_describe", "maria_insert", "maria_update", "maria_delete",
       "maria_transaction", "maria_use", "maria_status" >>

MemcachedTools ==
    << "memcached_get", "memcached_set", "memcached_add", "memcached_replace",
       "memcached_delete", "memcached_incr", "memcached_decr",
       "memcached_append", "memcached_prepend", "memcached_flush",
       "memcached_stats" >>

LmdbTools ==
    << "lmdb_get", "lmdb_put", "lmdb_delete", "lmdb_exists", "lmdb_range",
       "lmdb_keys", "lmdb_batch", "lmdb_stats" >>

ItopTools ==
    << "itop_get", "itop_get_by_id", "itop_create", "itop_update",
       "itop_delete", "itop_apply_stimulus", "itop_classes", "itop_relations",
       "itop_search", "itop_tickets", "itop_ci_types" >>

PostgresqlTools ==
    << "pg_query", "pg_select", "pg_insert", "pg_update", "pg_delete",
       "pg_tables", "pg_columns", "pg_json_query", "pg_create_table",
       "pg_extensions" >>

MongodbTools ==
    << "mongo_find", "mongo_find_one", "mongo_insert_one",
       "mongo_insert_many", "mongo_update_one", "mongo_update_many",
       "mongo_delete_one", "mongo_delete_many", "mongo_aggregate",
       "mongo_count", "mongo_distinct", "mongo_collections",
       "mongo_create_index", "mongo_indexes" >>

Neo4jTools ==
    << "neo4j_query", "neo4j_create_node", "neo4j_create_relationship",
       "neo4j_find_nodes", "neo4j_find_relationships", "neo4j_shortest_path",
       "neo4j_delete_node", "neo4j_labels", "neo4j_relationship_types",
       "neo4j_stats" >>

ElasticsearchTools ==
    << "es_search", "es_match", "es_multi_match", "es_index_doc", "es_bulk",
       "es_get", "es_delete", "es_delete_by_query", "es_count",
       "es_aggregate", "es_create_index", "es_delete_index", "es_indices",
       "es_mapping", "es_cluster_health" >>

InfluxdbTools ==
    << "influx_query", "influx_write", "influx_write_point",
       "influx_query_simple", "influx_aggregate", "influx_buckets",
       "influx_measurements", "influx_tags", "influx_delete",
       "influx_health" >>

\* The modules of arangodb, virtuoso, couchdb and cassandra are not in the
\* source tree; the changelog of the release that added them lists their tools.
ArangodbTools ==
    << "arango_query", "arango_list_databases", "arango_list_collections",
       "arango_collection_info", "arango_insert", "arango_get",
       "arango_update", "arango_delete", "arango_create_collection",
       "arango_create_index", "arango_traverse", "arango_list_graphs",
       "arango_explain" >>

VirtuosoTools ==
    << "virtuoso_select", "virtuoso_ask", "virtuoso_construct",
       "virtuoso_describe", "virtuoso_insert", "virtuoso_delete",
       "virtuoso_update", "virtuoso_list_graphs", "virtuoso_graph_stats",
       "virtuoso_find_by_type", "virtuoso_text_search",
       "virtuoso_list_prefixes", "virtuoso_load_rdf",
       "virtuoso_clear_graph" >>

CouchdbTools ==
    << "couchdb_list_databases", "couchdb_create_database",
       "couchdb_delete_database", "couchdb_info", "couchdb_all_docs",
       "couchdb_get", "couchdb_insert", "couchdb_delete", "couchdb_find",
       "couchdb_create_index", "couchdb_view", "couchdb_bulk_docs",
       "couchdb_changes" >>

CassandraTools ==
    << "cassandra_query", "cassandra_list_keyspaces", "cassandra_list_tables",
       "cassandra_describe_table", "cassandra_insert", "cassandra_update",
       "cassandra_delete", "cassandra_create_keyspace",
       "cassandra_create_table", "cassandra_drop_table", "cassandra_batch",
       "cassandra_cluster_info" >>

\* Object.keys(adapter.tools || {}) of the module registered under key a.
ToolsOf(a) ==
    CASE a = "surrealdb"      -> SurrealdbTools
      [] a = "dragonfly"      -> DragonflyTools
      [] a = "xtdb"           -> XtdbTools
      [] a = "sqlite"         -> SqliteTools
      [] a = "duckdb"         -> DuckdbTools
      [] a = "qdrant"         -> QdrantTools
      [] a = "meilisearch"    -> MeilisearchTools
      [] a = "mariadb"        -> MariadbTools
      [] a = "memcached"      -> MemcachedTools
      [] a = "lmdb"           -> LmdbTools
      [] a = "itop"           -> ItopTools
      [] a = "postgresql"     -> PostgresqlTools
      [] a = "mongodb"        -> MongodbTools
      [] a = "neo4j"          -> Neo4jTools
      [] a = "elasticsearch"  -> ElasticsearchTools
      [] a = "influxdb"       -> InfluxdbTools
      [] a = "arangodb"       -> ArangodbTools
      [] a = "virtuoso"       -> VirtuosoTools
      [] a = "couchdb"        -> CouchdbTools
      [] a = "cassandra"      -> CassandraTools

Range(s) == { s[i] : i \in 1..Len(s) }

OwnTools(a) == Range(ToolsOf(a))

\* Every tool name some adapter of the entry point's registry declares.
FlattenedNames(e) == UNION { OwnTools(a) : a \in Range(Adapters(e)) }

(***************************************************************************)
(* The naming rule of tests/adapters_test.js: a tool name starts with one  *)
(* of five prefixes made from the adapter's name and registry key.  All    *)
(* names and keys are lower case and have no hyphen.                       *)
(***************************************************************************)
\* toolName.startsWith(prefix)
StartsWith(t, p) == Len(t) >= Len(p) /\ SubSeq(t, 1, Len(p)) = p

\* n.replace(/db$/i, "")
StripDb(n) ==
    IF Len(n) >= 2 /\ SubSeq(n, Len(n) - 1, Len(n)) = "db"
        THEN SubSeq(n, 1, Len(n) - 2)
        ELSE n

\* n.substring(0, 4)
FirstFour(n) == IF Len(n) <= 4 THEN n ELSE SubSeq(n, 1, 4)

ValidPrefixes(key) ==
    { AdapterName(key) \o "_", key \o "_", StripDb(AdapterName(key)) \o "_",
      StripDb(key) \o "_", FirstFour(AdapterName(key)) \o "_" }

HasValidPrefix(key, t) == \E p \in ValidPrefixes(key) : StartsWith(t, p)

(***************************************************************************)
(* What a handler may do when the gateway calls it.  The gateway knows     *)
(* nothing about a handler beyond `await toolDef.handler(args)`: it        *)
(* resolves with some value or rejects with some thrown value.             *)
(***************************************************************************)
ReturnedValues ==
    { [kind |-> "object", error |-> Absent],              \* { rows: ..., count: ... }
      [kind |-> "object", error |-> "DuckDB not configured"],  \* duck_query, no URL
      [kind |-> "bigint", error |-> Absent] }             \* JSON.stringify throws on it

ThrownValues ==
    { [type |-> "Error", message |-> "connection refused"],
      [type |-> "Error", message |-> ""],                 \* new Error()
      [type |-> "string", message |-> Undefined],         \* throw "text"
      [type |-> "null", message |-> Undefined] }          \* throw null / undefined

HandlerOutcomes ==
    { [kind |-> "return", value |-> v, thrown |-> [type |-> "none", message |-> Undefined]]
        : v \in ReturnedValues }
    \cup
    { [kind |-> "throw", value |-> [kind |-> "none", error |-> Absent], thrown |-> x]
        : x \in ThrownValues }

\* `error.message`: reading a property of null or undefined throws a
\* TypeError; a string has no such property.
GetMessage(e) ==
    [threw |-> e.type = "null", value |-> e.message]

\* `m.substring(0, 50)`: calling a method of undefined throws a TypeError.
SubstringThrows(m) == m = Undefined

\* What the `catch (error)` clause binds: the handler's thrown value, or the
\* TypeError JSON.stringify raised inside the try block.
CaughtIn(o) ==
    IF o.kind = "throw" THEN o.thrown
    ELSE [type |-> "Error", message |-> "Do not know how to serialize a BigInt"]

\* Does control reach the catch clause?
EntersCatch(o) == o.kind = "throw" \/ o.value.kind = "bigint"

(***************************************************************************)
(* JSON.stringify of the objects the wrappers build.  A text is a record   *)
(* of the keys it carries; a key whose value is undefined is dropped, and  *)
(* JSON.stringify(undefined) is undefined, not a string.                   *)
(***************************************************************************)
JsonKey(v) == IF v = Undefined THEN Absent ELSE v

NoText ==
    [present |-> FALSE, data |-> Absent, error |-> Absent, tool |-> Absent,
     adapter |-> Absent, feedback |-> Absent]

StringifyResult(v) ==
    IF v.kind = "undefined" THEN NoText
    ELSE [present |-> TRUE, data |-> "result", error |-> v.error, tool |-> Absent,
          adapter |-> Absent, feedback |-> Absent]

StringifyFailure(msg, tool, adapter, feedback) ==
    [present |-> TRUE, data |-> Absent, error |-> JsonKey(msg), tool |-> JsonKey(tool),
     adapter |-> JsonKey(adapter), feedback |-> JsonKey(feedback)]

(***************************************************************************)
(* Responses.  form: "tool_result" is { content: [{ type: "text", text }] };*)
(* "rpc_result" / "rpc_error" are the JSON-RPC replies of the HTTP path;   *)
(* "exception" is a rejection leaving the wrapper.  via names the return   *)
(* statement that produced it.                                             *)
(***************************************************************************)
ToolResult(via, text) ==
    [form |-> "tool_result", via |-> via, text |-> text, code |-> 0, message |-> Absent]

RpcResult(text) ==
    [form |-> "rpc_result", via |-> "try", text |-> text, code |-> 0, message |-> Absent]

RpcError(via, code, message) ==
    [form |-> "rpc_error", via |-> via, text |-> NoText, code |-> code,
     message |-> JsonKey(message)]

Escaped ==
    [form |-> "exception", via |-> "catch", text |-> NoText, code |-> 0,
     message |-> "TypeError"]

NoResponse ==
    [form |-> "none", via |-> "none", text |-> NoText, code |-> 0, message |-> Absent]

NoOutcome ==
    [kind |-> "none", value |-> [kind |-> "none", error |-> Absent],
     thrown |-> [type |-> "none", message |-> Undefined]]

NoRequest == [entry |-> "none", name |-> "", outcome |-> NoOutcome]

\* index.js: the catch clause reports { error: error.message } and nothing else.
IndexWrapper(toolName, adapterName, o) ==
    IF ~EntersCatch(o) THEN ToolResult("try", StringifyResult(o.value))
    ELSE IF GetMessage(CaughtIn(o)).threw THEN Escaped
    ELSE ToolResult("catch",
             StringifyFailure(GetMessage(CaughtIn(o)).value, Undefined, Undefined,
                              Undefined))

\* server.js: the catch clause first builds feedbackUrl from
\* error.message.substring(0, 50), then reports error, tool and adapter.
ServerWrapper(toolName, adapterName, o) ==
    IF ~EntersCatch(o) THEN ToolResult("try", StringifyResult(o.value))
    ELSE IF GetMessage(CaughtIn(o)).threw THEN Escaped
    ELSE IF SubstringThrows(GetMessage(CaughtIn(o)).value) THEN Escaped
    ELSE ToolResult("catch",
             StringifyFailure(GetMessage(CaughtIn(o)).value, toolName, adapterName,
                              "feedback"))

(***************************************************************************)
(* The HTTP fallback's lookup `adapter.tools && adapter.tools[name]`.      *)
(* `tools` is an ordinary object literal, so the lookup also finds what    *)
(* it inherits from Object.prototype.                                      *)
(***************************************************************************)
ObjectPrototypeKeys ==
    { "constructor", "toString", "valueOf", "hasOwnProperty", "isPrototypeOf",
      "toLocaleString", "__proto__" }

\* The adapter forgot to look the name up: `if (adapter.tools)`.
HasPropertyAny(a, name) == TRUE

\* adapter.tools[name] is truthy
HasProperty(a, name) == name \in OwnTools(a) \/ name \in ObjectPrototypeKeys

RECURSIVE FindFrom(_, _, _)
\* The for-loop over Object.entries(adapters): the index of the first
\* adapter whose tools have the property, 0 when the loop falls through.
FindFrom(s, i, name) ==
    IF i > Len(s) THEN 0
    ELSE IF HasProperty(s[i], name) THEN i
    ELSE FindFrom(s, i + 1, name)

\* adapter.tools[name].handler is a function only for a declared tool.
HandlerIsFunction(a, name) == name \in OwnTools(a)

HttpAnswer(a, name, o) ==
    IF ~HandlerIsFunction(a, name)
        THEN RpcError("catch", -32603, "adapter.tools[name].handler is not a function")
    ELSE IF ~EntersCatch(o) THEN RpcResult(StringifyResult(o.value))
    ELSE IF GetMessage(CaughtIn(o)).threw THEN Escaped
    ELSE RpcError("catch", -32603, GetMessage(CaughtIn(o)).value)

MetaTools == { "db_list", "db_help", "db_status", "db_copy" }

\* server.js, HTTP mode, method "tools/list": the four meta tools pushed
\* first, then every tool of every adapter of the registry.
HttpListedNames ==
    { "db_list", "db_help", "db_status", "db_copy" } \cup FlattenedNames("server")

\* Names a tools/call message may carry.
CallNames ==
    FlattenedNames("server") \cup MetaTools \cup ObjectPrototypeKeys
    \cup { "gamma_get", "" }

(***************************************************************************)
(* Connection lifecycle of the adapters.                                   *)
(*                                                                         *)
(* Every adapter module keeps its connection in module-level variables     *)
(* and exports connect, disconnect, isConnected and its tool handlers,     *)
(* all async functions.  An invocation runs without interruption from one  *)
(* await to the next; at an await any other in-flight invocation may run.  *)
(* The adapters modelled are the JavaScript modules and, with the suffix   *)
(* _res, the ReScript modules of the source tree.                          *)
(***************************************************************************)
MaxCalls == 3        \* invocations started in one behaviour

Tasks == {1, 2}      \* invocations in flight at the same time

Handles == 1..MaxCalls   \* an invocation constructs at most one handle

LifeAdapters ==
    { "postgresql", "dragonfly", "memcached", "sqlite", "mariadb", "neo4j",
      "meilisearch", "qdrant", "lmdb_native", "surrealdb", "lmdb", "mongodb",
      "xtdb", "itop", "influxdb", "elasticsearch", "duckdb", "verisimdb",
      "postgresql_res", "dragonfly_res", "mongodb_res", "sqlite_res",
      "elasticsearch_res" }

Operations == { "connect", "disconnect", "isConnected", "handler" }

(***************************************************************************)
(* The shape of each adapter's connect().                                  *)
(*   sync       if (h) return h; h = <constructor>(config); return h       *)
(*              the driver connects lazily, the constructor cannot fail    *)
(*              for want of a backend                                      *)
(*   syncOpen   the same, but the constructor opens the database file and  *)
(*              throws when it cannot                                      *)
(*   surreal    db = new Surreal(); await db.connect(); await db.signin(); *)
(*              await db.use(); return db                                  *)
(*   awaitOpen  kv = await Deno.openKv(path)                               *)
(*   mongoJs    if (client && db) return db; client = new MongoClient();   *)
(*              await client.connect(); db = client.db(); return db        *)
(*   mongoRes   c = make(); await connect(c); client := Some(c)            *)
(*   sqliteRes  await initSqlJs() unless loaded; database := Some(make())  *)
(*   stateless  return true: every request is a fresh HTTP call            *)
(*   duckdb     probes the HTTP endpoint and caches the answer             *)
(*   verisimdb  reads the URL from the environment                         *)
(***************************************************************************)
ConnectStyle(a) ==
    CASE a \in { "postgresql", "dragonfly", "memcached", "mariadb", "neo4j",
                 "meilisearch", "qdrant", "postgresql_res", "dragonfly_res" }
                                  -> "sync"
      [] a \in { "sqlite", "lmdb_native" }  -> "syncOpen"
      [] a = "surrealdb"          -> "surreal"
      [] a = "lmdb"               -> "awaitOpen"
      [] a = "mongodb"            -> "mongoJs"
      [] a = "mongodb_res"        -> "mongoRes"
      [] a = "sqlite_res"         -> "sqliteRes"
      [] a \in { "xtdb", "itop", "influxdb", "elasticsearch",
                 "elasticsearch_res" }      -> "stateless"
      [] a = "duckdb"             -> "duckdb"
      [] a = "verisimdb"          -> "verisimdb"

(***************************************************************************)
(* The shape of each adapter's disconnect().                               *)
(*   awaitClose  if (h) { await h.close(); h = null; }                     *)
(*   syncClose   if (h) { h.close(); h = null; }                           *)
(*   drop        h = null                                                  *)
(*   none        return true                                               *)
(*   verisimdb   url = null                                                *)
(***************************************************************************)
DisconnectStyleNoop(a) == "none"

DisconnectStyle(a) ==
    CASE a \in { "postgresql", "dragonfly", "mariadb", "neo4j", "surrealdb",
                 "mongodb", "lmdb_native", "postgresql_res", "mongodb_res" }
                                  -> "awaitClose"
      [] a \in { "memcached", "sqlite", "lmdb", "dragonfly_res", "sqlite_res" }
                                  -> "syncClose"
      [] a \in { "meilisearch", "qdrant" }  -> "drop"
      [] a \in { "xtdb", "itop", "influxdb", "elasticsearch",
                 "elasticsearch_res", "duckdb" }   -> "none"
      [] a = "verisimdb"          -> "verisimdb"

(***************************************************************************)
(* What isConnected() does once connect() has returned.                    *)
(*   ping    awaits a round trip on the handle (SELECT 1, ping, health...) *)
(*   pool    mariadb: getConnection(), ping(), release()                   *)
(*   none    returns true                                                  *)
(*   isSome  sqlite_res: returns whether the slot is filled                *)
(***************************************************************************)
ProbeStyle(a) ==
    CASE a \in { "postgresql", "dragonfly", "memcached", "neo4j", "meilisearch",
                 "qdrant", "mongodb", "postgresql_res", "dragonfly_res",
                 "mongodb_res" }  -> "ping"
      [] a = "mariadb"            -> "pool"
      [] a \in { "surrealdb", "sqlite", "lmdb", "lmdb_native" } -> "none"
      [] a = "sqlite_res"         -> "isSome"
      [] OTHER                    -> "direct"

\* The ReScript adapters' connect() returns unit: isConnected and getClient /
\* getDb read the slot again after `await connect()`.
ReadsSlotAfterConnect(a) ==
    a \in { "postgresql_res", "dragonfly_res", "mongodb_res", "sqlite_res" }

\* Embedded stores whose operations are synchronous calls on the handle.
SyncOperations(a) == a \in { "sqlite", "lmdb_native", "sqlite_res" }

\* isConnected and the handlers of these adapters never call connect().
Connectionless(a) == ConnectStyle(a) \in { "stateless", "duckdb", "verisimdb" }

\* Drivers that connect on first use: a handle is usable as soon as it is
\* constructed.  A Surreal instance is usable only after connect, signin and
\* use have completed on it.
HandleUsable(a, st) ==
    IF a = "surrealdb" THEN st = "ready"
    ELSE st \in { "new", "ready", "failed" }

NoLast == [op |-> "none", ok |-> FALSE, conn |-> 0]

\* What an invocation remembers of the moment it was started; up: the
\* backend was reachable then and has been ever since.
NoPre == [alone |-> FALSE, last |-> NoLast, created |-> 0, slot |-> 0, up |-> FALSE]

\* The adapters before anything has called into them: every module-level
\* slot holds its initial null / None / false.
LifeFresh ==
    /\ slot = 0
    /\ mongoDb = 0
    /\ sqlJsLoaded = FALSE
    /\ veriUrl = FALSE
    /\ duckAvailable = FALSE
    /\ hstate = [h \in Handles |-> "none"]
    /\ created = 0
    /\ calls = 0
    /\ discCalled = FALSE
    /\ last = NoLast
    /\ pc = [t \in Tasks |-> "idle"]
    /\ op = [t \in Tasks |-> "none"]
    /\ conn = [t \in Tasks |-> 0]
    /\ ret = [t \in Tasks |-> "none"]
    /\ pre = [t \in Tasks |-> NoPre]

\* The registry and gateway specifications never call into an adapter.
LifeQuiet ==
    /\ target = "postgresql"
    /\ duckConfigured = FALSE
    /\ reachable = TRUE
    /\ everUp = TRUE
    /\ everDown = FALSE
    /\ LifeFresh

(***************************************************************************)
(* The meta tools.  meta records what one call of a meta tool did: which   *)
(* adapters' isConnected() it called and what it put in its JSON text.     *)
(***************************************************************************)
\* One call of one adapter handler: which handler, how its code guards its
\* arguments, what the caller passed and whether the backend answers.
NoCall ==
    [family |-> "none", adapter |-> Absent, tool |-> Absent, guard |-> Absent,
     message |-> Absent, arg |-> Absent, up |-> FALSE]

NoMeta ==
    [op |-> "none", arg |-> Absent, inputs |-> << >>, probed |-> << >>,
     connected |-> << >>, disconnected |-> << >>, count |-> 0, total |-> 0,
     kind |-> "none", names |-> {}, flagged |-> << >>,
     call |-> NoCall, effects |-> {}, listed |-> << >>]

\* What adapter.isConnected() may give its caller: true, false, memcached's
\* stats object, undefined (memcached, `!err && stats` with no stats), or a
\* rejection.
ProbeOutcomes == { "true", "false", "stats", "undefined", "threw" }

\* JavaScript truthiness of a value isConnected() resolved with.
TruthyAll(v) == TRUE

Truthy(v) == v \in { "true", "stats" }

\* try { status[name] = await adapter.isConnected(); } catch { status[name] = false; }
Caught(v) == IF v = "threw" THEN "false" ELSE v

\* The outcomes of one round of isConnected() calls over the adapter list
\* s: every adapter answers d, except a and b, which answer oa and ob.
ProbeRound(s, d, a, oa, b, ob) ==
    [ i \in 1..Len(s) |-> IF s[i] = b THEN ob ELSE IF s[i] = a THEN oa ELSE d ]

ProbeRounds(s) ==
    { ProbeRound(s, d, a, oa, b, ob) :
        d \in { "true", "false" }, a \in Range(s), oa \in ProbeOutcomes,
        b \in Range(s), ob \in ProbeOutcomes }

\* The adapters of s, in order, whose status passes / fails the filter.
Passing(s, st) == SelectSeq(s, LAMBDA a : \E i \in 1..Len(s) : s[i] = a /\ Truthy(st[i]))

Failing(s, st) == SelectSeq(s, LAMBDA a : \E i \in 1..Len(s) : s[i] = a /\ ~Truthy(st[i]))

\* db_status over the adapter list s when the isConnected() calls give f.
DbStatusResult(s, f) ==
    LET st == [ i \in 1..Len(s) |-> Caught(f[i]) ] IN
    [NoMeta EXCEPT !.op = "db_status", !.inputs = f, !.probed = s,
                   !.connected = Passing(s, st),
                   !.disconnected = Failing(s, st),
                   !.count = Len(Passing(s, st)),
                   !.total = Len(s),
                   !.kind = "status"]

\* db_list's `if (checkConnections)`, the parameter defaulting to false.
ChecksConnectionsAlways(flag) == TRUE

ChecksConnections(flag) == flag = "true"

\* Object.entries(adapters): own string keys in insertion order.  No key
\* of either registry literal is an array index, the only keys JavaScript
\* would move to the front.
EntriesReversed(s) == [ i \in 1..Len(s) |-> s[Len(s) + 1 - i] ]

Entries(s) == s

\* db_list over the adapter list s: name, description and tool names of
\* every adapter and, under the flag, one isConnected() each, in its own
\* try / catch, stored as `connected`.
DbListResult(s, flag, f) ==
    [NoMeta EXCEPT !.op = "db_list", !.arg = flag, !.kind = "list",
                   !.total = Len(s),
                   !.listed = Entries(s),
                   !.names = UNION { OwnTools(a) : a \in Range(s) },
                   !.inputs = IF ChecksConnections(flag) THEN f ELSE << >>,
                   !.probed = IF ChecksConnections(flag) THEN s ELSE << >>,
                   !.flagged = IF ChecksConnections(flag)
                                  THEN [ i \in 1..Len(s) |-> Caught(f[i]) ]
                                  ELSE << >>,
                   !.effects = IF ChecksConnections(flag) THEN { "isConnected" } ELSE {}]

\* Values of db_help's optional `database` argument: omitted, the empty
\* string, a key of one or both registries, a key of neither, and property
\* names every object literal inherits.
HelpArguments ==
    { Absent, "", "postgresql", "duckdb", "arangodb", "gamma" } \cup ObjectPrototypeKeys

\* `adapters[database]` is truthy: own keys of the registry object, or a
\* property found on Object.prototype.
LooksUp(e, d) == d \in Range(Adapters(e)) \/ d \in ObjectPrototypeKeys

\* db_help: `if (database)`, then the lookup, then either the "Unknown
\* database" text or the catalogue of Object.entries(adapter.tools || {});
\* without a database the summary of name, description and toolCount.
DbHelpResult(e, d) ==
    IF d \in { Absent, "" }
        THEN [NoMeta EXCEPT !.op = "db_help", !.arg = d, !.kind = "summary"]
    ELSE IF ~LooksUp(e, d)
        THEN [NoMeta EXCEPT !.op = "db_help", !.arg = d, !.kind = "unknown"]
    ELSE [NoMeta EXCEPT !.op = "db_help", !.arg = d, !.kind = "catalogue",
                        !.names = IF d \in Range(Adapters(e)) THEN OwnTools(d) ELSE {}]

\* Every operation name some db_help answer of entry point e contains.
DbHelpNames(e) ==
    UNION { DbHelpResult(e, d).names : d \in HelpArguments \cup Range(Adapters(e)) }

(***************************************************************************)
(* Handlers.  A run of a handler gives the value it resolves with or the   *)
(* value it rejects with, and the effects it had on the way: "connect"     *)
(* when it called connect(), "statement" when it handed a statement or     *)
(* request to the backend client.                                          *)
(***************************************************************************)
Returns(err, eff) ==
    [outcome |-> [kind |-> "return", value |-> [kind |-> "object", error |-> err],
                  thrown |-> [type |-> "none", message |-> Undefined]],
     effects |-> eff]

Throws(msg, eff) ==
    [outcome |-> [kind |-> "throw", value |-> [kind |-> "none", error |-> Absent],
                  thrown |-> [type |-> "Error", message |-> msg]],
     effects |-> eff]

\* The update and delete handlers that build `... WHERE ${where}`.  guard:
\* "falsy" is `if (!where) throw new Error(...)` before connect();
\* "option" is ReScript's `switch where { | None => {"error": ...} }`;
\* "unguarded" is no test at all.
DestructiveTools ==
    { [adapter |-> "postgresql", tool |-> "pg_update", guard |-> "falsy",
       message |-> "WHERE clause required for UPDATE"],
      [adapter |-> "postgresql", tool |-> "pg_delete", guard |-> "falsy",
       message |-> "WHERE clause required for DELETE"],
      [adapter |-> "postgresql", tool |-> "pg_update", guard |-> "option",
       message |-> "WHERE clause required for UPDATE"],
      [adapter |-> "postgresql", tool |-> "pg_delete", guard |-> "option",
       message |-> "WHERE clause required for DELETE"],
      [adapter |-> "sqlite", tool |-> "sqlite_update", guard |-> "unguarded",
       message |-> Absent],
      [adapter |-> "sqlite", tool |-> "sqlite_delete", guard |-> "unguarded",
       message |-> Absent],
      [adapter |-> "sqlite", tool |-> "sqlite_update", guard |-> "option",
       message |-> "WHERE clause required for UPDATE"],
      [adapter |-> "sqlite", tool |-> "sqlite_delete", guard |-> "option",
       message |-> "WHERE clause required for DELETE"],
      [adapter |-> "mariadb", tool |-> "maria_update", guard |-> "unguarded",
       message |-> Absent],
      [adapter |-> "mariadb", tool |-> "maria_delete", guard |-> "unguarded",
       message |-> Absent] }

\* The `where` argument: omitted, the empty string, a condition.
WhereArguments == { Absent, "", "id = 1" }

DestructiveCases ==
    { [family |-> "destructive", adapter |-> h.adapter, tool |-> h.tool,
       guard |-> h.guard, message |-> h.message, arg |-> w, up |-> u]
        : h \in DestructiveTools, w \in WhereArguments, u \in BOOLEAN }

\* An update or delete handler run with the other arguments well-formed.
\* Past its guard it calls connect() and sends the statement it built; the
\* backend rejects `WHERE undefined` and `WHERE ` with its own error.
RunDestructive(c) ==
    IF c.guard = "falsy" /\ c.arg \in { Absent, "" } THEN Throws(c.message, {})
    ELSE IF c.guard = "option" /\ c.arg = Absent THEN Returns(c.message, {})
    ELSE IF ~c.up THEN Throws("connection refused", { "connect" })
    ELSE IF c.arg = "id = 1" THEN Returns(Absent, { "connect", "statement" })
    ELSE Throws("syntax error", { "connect", "statement" })

\* Handlers with a required or JSON-typed argument.  guard: "parse" is
\* `await connect()` followed by JSON.parse(data) (surreal_create);
\* "forward" hands the argument to the client as it came (surreal_select);
\* "option" is the ReScript handler answering {"error": ...} on None.
ValidatedTools ==
    { [adapter |-> "surrealdb", tool |-> "surreal_create", guard |-> "parse",
       message |-> Absent],
      [adapter |-> "surrealdb", tool |-> "surreal_select", guard |-> "forward",
       message |-> Absent],
      [adapter |-> "postgresql", tool |-> "pg_delete", guard |-> "option",
       message |-> "WHERE clause required for DELETE"] }

\* The argument in question: well-formed, left out, or not JSON.
ArgumentStates(guard) ==
    IF guard = "parse" THEN { "valid", "missing", "malformed" } ELSE { "valid", "missing" }

ValidatedCases ==
    UNION { { [family |-> "validated", adapter |-> h.adapter, tool |-> h.tool,
               guard |-> h.guard, message |-> h.message, arg |-> x, up |-> u]
                : x \in ArgumentStates(h.guard), u \in BOOLEAN }
            : h \in ValidatedTools }

\* JSON.parse(undefined) and JSON.parse("not-valid-json") both throw a
\* SyntaxError; an argument forwarded as undefined reaches the client call.
RunValidated(c) ==
    IF c.guard = "option" /\ c.arg = "missing" THEN Returns(c.message, {})
    ELSE IF ~c.up THEN Throws("connection refused", { "connect" })
    ELSE IF c.guard = "parse" /\ c.arg # "valid"
        THEN Throws("Unexpected token", { "connect" })
    ELSE IF c.arg = "valid" THEN Returns(Absent, { "connect", "statement" })
    ELSE Throws("backend error", { "connect", "statement" })

\* memcached handlers that call the server.  guard: "propagate" awaits the
\* call bare (memcached_set); "fixed" wraps it in try / catch and answers
\* with its own text (memcached_add, memcached_replace); "resolve" answers
\* { error: err.message } (memcached_stats).
CacheTools ==
    { [adapter |-> "memcached", tool |-> "memcached_set", guard |-> "propagate",
       message |-> Absent],
      [adapter |-> "memcached", tool |-> "memcached_add", guard |-> "fixed",
       message |-> "Key already exists"],
      [adapter |-> "memcached", tool |-> "memcached_replace", guard |-> "fixed",
       message |-> "Key does not exist"],
      [adapter |-> "memcached", tool |-> "memcached_stats", guard |-> "resolve",
       message |-> Absent] }

\* The err the client passes to the callback when the server cannot be
\* reached or the call fails.
RawMessage == "connection refused"

CacheCases ==
    { [family |-> "cache", adapter |-> h.adapter, tool |-> h.tool,
       guard |-> h.guard, message |-> h.message, arg |-> Absent, up |-> u]
        : h \in CacheTools, u \in BOOLEAN }

\* connect() only creates the memjs client; the call itself fails.
RunCache(c) ==
    IF c.up THEN Returns(Absent, { "connect", "statement" })
    ELSE IF c.guard = "fixed" THEN Returns(c.message, { "connect", "statement" })
    ELSE IF c.guard = "resolve" THEN Returns(RawMessage, { "connect", "statement" })
    ELSE Throws(RawMessage, { "connect", "statement" })

\* Handlers that find out themselves that they cannot run: duck_query
\* when config.httpUrl is null, qdrant_delete when neither ids nor filter
\* was passed.  Both answer with `return { error: ... }`.
SelfCheckingTools ==
    { [adapter |-> "duckdb", tool |-> "duck_query", guard |-> "httpUrl",
       message |-> "DuckDB not configured"],
      [adapter |-> "qdrant", tool |-> "qdrant_delete", guard |-> "ids or filter",
       message |-> "Provide either ids or filter"] }

\* arg: is the thing the handler tests for there?
SelfCheckingCases ==
    { [family |-> "selfcheck", adapter |-> h.adapter, tool |-> h.tool,
       guard |-> h.guard, message |-> h.message, arg |-> x, up |-> u]
        : h \in SelfCheckingTools, x \in { "given", "missing" }, u \in BOOLEAN }

\* duck_query tests before it does anything; qdrant_delete awaits
\* connect() first and falls through both branches to its last return.
RunSelfChecking(c) ==
    LET before == IF c.tool = "qdrant_delete" THEN { "connect" } ELSE {} IN
    IF c.arg = "missing" THEN Returns(c.message, before)
    ELSE IF c.up THEN Returns(Absent, before \cup { "statement" })
    ELSE Throws(RawMessage, before \cup { "statement" })

HandlerCases ==
    DestructiveCases \cup ValidatedCases \cup CacheCases \cup SelfCheckingCases

RunHandler(c) ==
    CASE c.family = "destructive" -> RunDestructive(c)
      [] c.family = "validated"   -> RunValidated(c)
      [] c.family = "cache"       -> RunCache(c)
      [] c.family = "selfcheck"   -> RunSelfChecking(c)

(***************************************************************************)
(* Module state.  Every adapter module keeps its connection in a variable  *)
(* declared with `let` at the top of the module (sql, client, db, kv,      *)
(* available) and exports none of them: connect, disconnect, isConnected   *)
(* and the handlers of a module read and write the variable of that        *)
(* module.  cells maps each such variable to "null" or "handle".           *)
(***************************************************************************)
MaxOpen == 2

\* The variable the functions of adapter a's module close over.
ModuleVariableOfFirst(a) == "postgresql"

ModuleVariable(a) == a

NoHandles == [ v \in Range(ServerAdapters) |-> "null" ]

\* The adapters of the registry whose modules are in the source tree.
Modules(e) == Range(Adapters(e)) \cap LifeAdapters

Open == { v \in DOMAIN cells : cells[v] = "handle" }

\* connect() of a: on success the variable holds the handle; a module that
\* assigns before its first await (db = new Surreal(), client = new
\* MongoClient()) holds it after a failure too; a stateless module has none.
AfterConnect(a, ok) ==
    IF ConnectStyle(a) \in { "stateless", "verisimdb", "duckdb" } THEN cells[ModuleVariable(a)]
    ELSE IF ok \/ ConnectStyle(a) \in { "surreal", "mongoJs" } THEN "handle"
    ELSE cells[ModuleVariable(a)]

(***************************************************************************)
(* Pooled connections and transactions.  The MariaDB module keeps a pool   *)
(* of connectionLimit connections; isConnected() and maria_transaction     *)
(* take one with pool.getConnection() and give it back with release().     *)
(* sqlite_transaction runs on the one DB handle of its module.  A batch is *)
(* two statements, s1 then s2, or a string that JSON.parse rejects.        *)
(***************************************************************************)
ConnectionLimit == 5

StatementInputs == { "batch", "malformed" }

Statements == { "s1", "s2" }

\* What the backend does at each step the handler may reach: TRUE is a step
\* that succeeds.  open tells whether the driver still holds a transaction
\* after a ROLLBACK that failed.
BackendOutcomes ==
    [ getconn : BOOLEAN, begin : BOOLEAN, s1 : BOOLEAN, s2 : BOOLEAN,
      commit : BOOLEAN, rollback : BOOLEAN, open : BOOLEAN ]

NoTxn ==
    [tool |-> "none", input |-> Absent, acquired |-> FALSE, released |-> FALSE,
     result |-> "none", error |-> Absent, first |-> Absent, persisted |-> {},
     open |-> FALSE]

\* The first step of the sequence that fails, "none" when all succeed.
FirstFailure(o, steps) ==
    IF \E i \in 1..Len(steps) : ~o[steps[i]]
    THEN steps[CHOOSE i \in 1..Len(steps) :
                   /\ ~o[steps[i]]
                   /\ \A j \in 1..(i - 1) : o[steps[j]]]
    ELSE "none"

\* try { steps } catch (error) { rollback; throw error }: a rollback that
\* throws leaves the catch block with its own error, and `throw error` is
\* not reached.
TryBatch(t, o, steps) ==
    LET failed == FirstFailure(o, steps) IN
    IF failed = "none"
    THEN [t EXCEPT !.result = "success", !.first = "none", !.persisted = Statements]
    ELSE IF o.rollback
    THEN [t EXCEPT !.result = "threw", !.first = failed, !.error = failed]
    ELSE [t EXCEPT !.result = "threw", !.first = failed, !.error = "rollback",
                   !.open = o.open /\ failed # "begin"]

\* isConnected() of the MariaDB module: release() follows ping() inside the
\* try, and the catch only returns false.
MariaIsConnectedRun(got, ping) ==
    LET t == [NoTxn EXCEPT !.tool = "isConnected"] IN
    IF ~got THEN [t EXCEPT !.result = "false", !.first = "getConnection"]
    ELSE IF ~ping THEN [t EXCEPT !.acquired = TRUE, !.result = "false", !.first = "ping"]
    ELSE [t EXCEPT !.acquired = TRUE, !.released = TRUE, !.result = "true", !.first = "none"]

\* maria_transaction: getConnection and JSON.parse come before the try whose
\* finally releases the connection.
MariaTransactionRun(inp, o) ==
    LET t == [NoTxn EXCEPT !.tool = "maria_transaction", !.input = inp] IN
    IF ~o.getconn
    THEN [t EXCEPT !.result = "threw", !.first = "getConnection", !.error = "getConnection"]
    ELSE IF inp = "malformed"
    THEN [t EXCEPT !.acquired = TRUE, !.result = "threw", !.first = "parse", !.error = "parse"]
    ELSE [TryBatch([t EXCEPT !.acquired = TRUE], o, <<"begin", "s1", "s2", "commit">>)
              EXCEPT !.released = TRUE]

\* sqlite_transaction: connect, JSON.parse and BEGIN TRANSACTION come before
\* the try.
SqliteTransactionRun(inp, o) ==
    LET t == [NoTxn EXCEPT !.tool = "sqlite_transaction", !.input = inp] IN
    IF ~o.getconn
    THEN [t EXCEPT !.result = "threw", !.first = "connect", !.error = "connect"]
    ELSE IF inp = "malformed"
    THEN [t EXCEPT !.result = "threw", !.first = "parse", !.error = "parse"]
    ELSE IF ~o.begin
    THEN [t EXCEPT !.result = "threw", !.first = "begin", !.error = "begin"]
    ELSE TryBatch(t, o, <<"s1", "s2", "commit">>)

\* A connection taken and not given back stays out of the pool.
Lease(t) == IF t.acquired /\ ~t.released THEN leased + 1 ELSE leased

(***************************************************************************)
(* The LMDB adapter on Deno.Kv.  kv.get of a key that holds nothing gives  *)
(* { value: null, versionstamp: null }; kv.set stores any value it is      *)
(* given, null included, under a fresh versionstamp.                       *)
(***************************************************************************)
Keys == { "k1", "k2" }

\* The `value` strings a caller passes: JSON null, a JSON number, a JSON
\* string, text that is not JSON, and the empty string.
PutValues == { "null", "1", "\"a\"", "plain", "" }

JsNull == "<null>"

SyntaxError == "<SyntaxError>"

\* JSON.parse of the strings above; the values it gives are written <..>
\* where they differ from the text that was parsed.
JsonParse(text) ==
    CASE text = "null" -> JsNull
      [] text = "1" -> "<1>"
      [] text = "\"a\"" -> "a"
      [] OTHER -> SyntaxError

\* try { val = JSON.parse(value) } catch { val = value }
PutValue(value) ==
    IF JsonParse(value) = SyntaxError THEN value ELSE JsonParse(value)

NoEntry == [value |-> JsNull, versionstamp |-> FALSE]

EmptyStore == [ k \in Keys |-> NoEntry ]

NoKvCall ==
    [tool |-> "none", key |-> Absent, input |-> Absent, result |-> "none",
     value |-> Absent, flag |-> Absent, wasLive |-> FALSE]

\* The start of every handler: its name, its key, and whether the key has
\* been put and not deleted since.
KvCall(t, k) == [NoKvCall EXCEPT !.tool = t, !.key = k, !.wasLive = k \in live]

\* `x.value !== null`, the test behind found, exists and deleted.
NotNull(e) == IF e.value # JsNull THEN "true" ELSE "false"

(***************************************************************************)
(* The registration loop: for each adapter, for each of its tools,         *)
(* server.tool(toolName, params, wrapper).  The wrapper closes over        *)
(* toolDef and adapterName, which the registration records.                *)
(***************************************************************************)
Registration(a, t) == [tool |-> t, adapter |-> a]

\* Adapter modules a maintainer could add to the registry literal: "redis",
\* a copy of the dragonfly module that still exports name = "dragonfly", and
\* "valkey", a new module one of whose tools kept the name redis_get.
AddedAdapters == { "redis", "valkey" }

AddedName(a) == IF a = "redis" THEN "dragonfly" ELSE a

AddedTools(a) == IF a = "redis" THEN << "redis_ping" >> ELSE << "redis_get" >>

\* The registry the loop walks, its modules' names and tools.
Walked == Adapters(entry) \o extra

ModuleName(a) == IF a \in AddedAdapters THEN AddedName(a) ELSE AdapterName(a)

ModuleTools(a) == IF a \in AddedAdapters THEN AddedTools(a) ELSE ToolsOf(a)

RegisteredNames == { registered[i].tool : i \in 1..Len(registered) }

\* The registry as the process is built: nothing added.  Whether server.tool
\* of the SDK throws on a repeated name does not show in the source tree.
AsBuilt ==
    /\ extra = << >>
    /\ sdkRejects \in BOOLEAN
    /\ regFailed = FALSE

\* The loop is over and nothing was added: server.tool is not called again.
BuiltAsIs ==
    /\ extra = << >>
    /\ sdkRejects = TRUE
    /\ regFailed = FALSE

RegInit ==
    /\ entry \in EntryPoints
    /\ regA = 1
    /\ regT = 1
    /\ registered = << >>
    /\ AsBuilt
    /\ req = NoRequest
    /\ resp = NoResponse
    /\ ran = {}
    /\ meta = NoMeta
    /\ cells = NoHandles
    /\ leased = 0
    /\ txn = NoTxn
    /\ store = EmptyStore
    /\ live = {}
    /\ kvLast = NoKvCall
    /\ LifeQuiet

\* As RegInit, for a registry to which one module has been added.
RegInitAdded ==
    /\ entry \in EntryPoints
    /\ regA = 1
    /\ regT = 1
    /\ registered = << >>
    /\ extra \in { << >> } \cup { << a >> : a \in AddedAdapters }
    /\ sdkRejects \in BOOLEAN
    /\ regFailed = FALSE
    /\ req = NoRequest
    /\ resp = NoResponse
    /\ ran = {}
    /\ meta = NoMeta
    /\ cells = NoHandles
    /\ leased = 0
    /\ txn = NoTxn
    /\ store = EmptyStore
    /\ live = {}
    /\ kvLast = NoKvCall
    /\ LifeQuiet

\* server.tool(toolName, params, wrapper): the loop itself compares no
\* names; an exception of server.tool leaves the loop and the module.
RegisterTool ==
    /\ ~regFailed
    /\ regA <= Len(Walked)
    /\ regT <= Len(ModuleTools(Walked[regA]))
    /\ LET t == ModuleTools(Walked[regA])[regT] IN
       IF t \in RegisteredNames /\ sdkRejects
          THEN /\ regFailed' = TRUE
               /\ UNCHANGED <<registered, regT>>
          ELSE /\ registered' = Append(registered, Registration(Walked[regA], t))
               /\ regT' = regT + 1
               /\ UNCHANGED regFailed
    /\ UNCHANGED <<entry, regA, extra, sdkRejects, req, resp, ran, meta, cells, txnVars, kvVars, lifeVars>>

NextAdapter ==
    /\ ~regFailed
    /\ regA <= Len(Walked)
    /\ regT > Len(ModuleTools(Walked[regA]))
    /\ regA' = regA + 1
    /\ regT' = 1
    /\ UNCHANGED <<entry, registered, extra, sdkRejects, regFailed, req, resp,
                   ran, meta, cells, txnVars, kvVars, lifeVars>>

RegNext == RegisterTool \/ NextAdapter

RECURSIVE RegistrationsFrom(_, _)
\* The registrations the finished loop has made over the adapter list s,
\* starting at its i-th adapter.
RegistrationsFrom(s, i) ==
    IF i > Len(s) THEN << >>
    ELSE [ k \in 1..Len(ToolsOf(s[i])) |-> Registration(s[i], ToolsOf(s[i])[k]) ]
         \o RegistrationsFrom(s, i + 1)

AllRegistrations(e) == RegistrationsFrom(Adapters(e), 1)

(***************************************************************************)
(* Gateway actions.  Each call action is one whole invocation, from the    *)
(* request to the value the wrapper returns; Deliver hands that value to   *)
(* the transport and ends the invocation.  The gateway keeps no state of   *)
(* its own between invocations, so the model answers them one at a time.   *)
(***************************************************************************)
Init ==
    /\ entry \in EntryPoints
    /\ regA = Len(Adapters(entry)) + 1
    /\ regT = 1
    /\ registered = AllRegistrations(entry)
    /\ BuiltAsIs
    /\ req = NoRequest
    /\ resp = NoResponse
    /\ ran = {}
    /\ meta = NoMeta
    /\ cells = NoHandles
    /\ leased = 0
    /\ txn = NoTxn
    /\ store = EmptyStore
    /\ live = {}
    /\ kvLast = NoKvCall
    /\ LifeQuiet

\* index.js: a call of a registered adapter tool.
IndexToolCall ==
    /\ entry = "index"
    /\ req = NoRequest
    /\ \E i \in 1..Len(registered), o \in HandlerOutcomes :
          /\ req' = [entry |-> "index", name |-> registered[i].tool, outcome |-> o]
          /\ ran' = { <<registered[i].adapter, registered[i].tool>> }
          /\ resp' = IndexWrapper(registered[i].tool, registered[i].adapter, o)
    /\ UNCHANGED <<regVars, meta, cells, txnVars, kvVars, lifeVars>>

\* server.js: a call of a registered adapter tool (STDIO or the SDK's transport).
ServerToolCall ==
    /\ entry = "server"
    /\ req = NoRequest
    /\ \E i \in 1..Len(registered), o \in HandlerOutcomes :
          /\ req' = [entry |-> "server", name |-> registered[i].tool, outcome |-> o]
          /\ ran' = { <<registered[i].adapter, registered[i].tool>> }
          /\ resp' = ServerWrapper(registered[i].tool, registered[i].adapter, o)
    /\ UNCHANGED <<regVars, meta, cells, txnVars, kvVars, lifeVars>>

\* server.js, HTTP mode: transport.onMessage with method "tools/call".
HttpToolsCall ==
    /\ entry = "server"
    /\ req = NoRequest
    /\ \E name \in CallNames, o \in HandlerOutcomes :
          LET i == FindFrom(ServerAdapters, 1, name) IN
          /\ req' = [entry |-> "http", name |-> name, outcome |-> o]
          /\ IF i = 0
                THEN /\ ran' = {}
                     /\ resp' = RpcError("lookup", -32601, "Tool not found")
                ELSE /\ ran' = IF HandlerIsFunction(ServerAdapters[i], name)
                                  THEN { <<ServerAdapters[i], name>> } ELSE {}
                     /\ resp' = HttpAnswer(ServerAdapters[i], name, o)
    /\ UNCHANGED <<regVars, meta, cells, txnVars, kvVars, lifeVars>>

\* The transport sends the reply (or reports the rejection) and is ready
\* for the next message.
Deliver ==
    /\ req # NoRequest
    /\ req' = NoRequest
    /\ resp' = NoResponse
    /\ ran' = {}
    /\ meta' = NoMeta
    /\ UNCHANGED <<regVars, cells, txnVars, kvVars, lifeVars>>

\* A text a meta tool returns: JSON.stringify of an object it built itself.
MetaText ==
    [present |-> TRUE, data |-> "result", error |-> Absent, tool |-> Absent,
     adapter |-> Absent, feedback |-> Absent]

\* db_status: one isConnected() per registered adapter, each in its own
\* try / catch, then the two filters and the summary.
DbStatus ==
    /\ req = NoRequest
    /\ \E f \in ProbeRounds(Adapters(entry)) :
          /\ meta' = DbStatusResult(Adapters(entry), f)
          /\ req' = [entry |-> entry, name |-> "db_status", outcome |-> NoOutcome]
          /\ resp' = ToolResult("try", MetaText)
          /\ ran' = {}
    /\ UNCHANGED <<regVars, cells, txnVars, kvVars, lifeVars>>

\* db_help: no await and no try / catch; every branch returns a text.
DbHelp ==
    /\ req = NoRequest
    /\ \E d \in HelpArguments :
          /\ meta' = DbHelpResult(entry, d)
          /\ req' = [entry |-> entry, name |-> "db_help", outcome |-> NoOutcome]
          /\ resp' = ToolResult("try", MetaText)
          /\ ran' = {}
    /\ UNCHANGED <<regVars, cells, txnVars, kvVars, lifeVars>>

\* A call of one of the handlers above through the wrapper the entry point
\* registered for it.
HandlerCall ==
    /\ req = NoRequest
    /\ \E c \in HandlerCases :
          /\ c.adapter \in Range(Adapters(entry))
          /\ req' = [entry |-> entry, name |-> c.tool, outcome |-> RunHandler(c).outcome]
          /\ ran' = { <<c.adapter, c.tool>> }
          /\ resp' = IF entry = "index"
                        THEN IndexWrapper(c.tool, c.adapter, RunHandler(c).outcome)
                        ELSE ServerWrapper(c.tool, c.adapter, RunHandler(c).outcome)
          /\ meta' = [NoMeta EXCEPT !.op = "handler", !.call = c,
                                      !.effects = RunHandler(c).effects]
    /\ UNCHANGED <<regVars, cells, txnVars, kvVars, lifeVars>>

\* One operation of one adapter module, called by a handler, db_status or
\* db_list; ok tells whether the backend answered.  isConnected() begins
\* with `await connect()` in every module that keeps a handle, except the
\* ReScript sqlite module, which only reads its variable.
ModuleOperation(a, o, ok) ==
    /\ meta.op # "shutdown"
    /\ meta' = [NoMeta EXCEPT !.op = o, !.call = [NoCall EXCEPT !.adapter = a, !.up = ok]]
    /\ cells' = [cells EXCEPT ![ModuleVariable(a)] =
                    IF o = "disconnect" THEN "null"
                    ELSE IF o = "connect" \/ ProbeStyle(a) \in { "ping", "pool", "none" }
                        THEN AfterConnect(a, ok)
                    ELSE @]
    /\ UNCHANGED <<regVars, req, resp, ran, txnVars, kvVars, lifeVars>>

ModuleConnect ==
    \E a \in Modules(entry), ok \in BOOLEAN :
        /\ Cardinality(Open) < MaxOpen \/ cells[ModuleVariable(a)] = "handle"
        /\ ModuleOperation(a, "connect", ok)

ModuleDisconnect ==
    \E a \in Modules(entry) : ModuleOperation(a, "disconnect", TRUE)

ModuleIsConnected ==
    \E a \in Modules(entry), ok \in BOOLEAN :
        /\ Cardinality(Open) < MaxOpen \/ cells[ModuleVariable(a)] = "handle"
        /\ ModuleOperation(a, "isConnected", ok)

ModuleInit ==
    /\ entry \in EntryPoints
    /\ regA = Len(Adapters(entry)) + 1
    /\ regT = 1
    /\ registered = AllRegistrations(entry)
    /\ BuiltAsIs
    /\ req = NoRequest
    /\ resp = NoResponse
    /\ ran = {}
    /\ meta = NoMeta
    /\ cells = NoHandles
    /\ leased = 0
    /\ txn = NoTxn
    /\ store = EmptyStore
    /\ live = {}
    /\ kvLast = NoKvCall
    /\ LifeQuiet

\* The process ends (stdin closes, a signal arrives, the platform stops the
\* isolate).  Neither entry point installs a signal listener or an unload
\* handler and nothing in the gateway calls an adapter's disconnect():
\* meta.probed, the adapters whose disconnect() ran, stays empty and every
\* module variable keeps what it held.
Shutdown ==
    /\ meta.op # "shutdown"
    /\ meta' = [NoMeta EXCEPT !.op = "shutdown", !.probed = << >>]
    /\ UNCHANGED <<regVars, req, resp, ran, cells, txnVars, kvVars, lifeVars>>

ModuleNext == ModuleConnect \/ ModuleDisconnect \/ ModuleIsConnected \/ Shutdown

\* isConnected() of the MariaDB module.  getConnection() gives a connection
\* only while the pool has one left; otherwise it rejects after the
\* acquire timeout.
MariaIsConnected ==
    \E got \in BOOLEAN, ping \in BOOLEAN :
        /\ txn' = MariaIsConnectedRun(got /\ leased < ConnectionLimit, ping)
        /\ leased' = Lease(txn')
        /\ UNCHANGED <<regVars, req, resp, ran, meta, cells, kvVars, lifeVars>>

MariaTransaction ==
    \E inp \in StatementInputs, o \in BackendOutcomes :
        /\ txn' = MariaTransactionRun(inp,
                      [o EXCEPT !.getconn = @ /\ leased < ConnectionLimit])
        /\ leased' = Lease(txn')
        /\ UNCHANGED <<regVars, req, resp, ran, meta, cells, kvVars, lifeVars>>

SqliteTransaction ==
    \E inp \in StatementInputs, o \in BackendOutcomes :
        /\ txn' = SqliteTransactionRun(inp, o)
        /\ UNCHANGED <<regVars, req, resp, ran, meta, cells, leased, kvVars, lifeVars>>

\* disconnect() of the MariaDB module ends the pool and clears the variable;
\* the next connect() creates a pool with every connection free.
MariaDisconnect ==
    /\ txn' = [NoTxn EXCEPT !.tool = "disconnect"]
    /\ leased' = 0
    /\ UNCHANGED <<regVars, req, resp, ran, meta, cells, kvVars, lifeVars>>

TxnNext == MariaIsConnected \/ MariaTransaction \/ SqliteTransaction \/ MariaDisconnect

\* The four LMDB handlers.  opened is the outcome of connect(): when
\* Deno.openKv rejects the handler throws before it touches the store.
LmdbPut ==
    \E k \in Keys, value \in PutValues, opened \in BOOLEAN :
        /\ kvLast' = IF opened
                     THEN [KvCall("lmdb_put", k) EXCEPT !.input = value, !.result = "success"]
                     ELSE [KvCall("lmdb_put", k) EXCEPT !.input = value, !.result = "threw"]
        /\ store' = IF opened
                    THEN [store EXCEPT ![k] = [value |-> PutValue(value), versionstamp |-> TRUE]]
                    ELSE store
        /\ live' = IF opened THEN live \cup { k } ELSE live
        /\ UNCHANGED <<regVars, req, resp, ran, meta, cells, txnVars, lifeVars>>

LmdbGet ==
    \E k \in Keys, opened \in BOOLEAN :
        /\ kvLast' = IF opened
                     THEN [KvCall("lmdb_get", k) EXCEPT !.result = "success",
                               !.value = store[k].value, !.flag = NotNull(store[k])]
                     ELSE [KvCall("lmdb_get", k) EXCEPT !.result = "threw"]
        /\ UNCHANGED <<regVars, req, resp, ran, meta, cells, txnVars, store, live, lifeVars>>

LmdbExists ==
    \E k \in Keys, opened \in BOOLEAN :
        /\ kvLast' = IF opened
                     THEN [KvCall("lmdb_exists", k) EXCEPT !.result = "success",
                               !.flag = NotNull(store[k])]
                     ELSE [KvCall("lmdb_exists", k) EXCEPT !.result = "threw"]
        /\ UNCHANGED <<regVars, req, resp, ran, meta, cells, txnVars, store, live, lifeVars>>

LmdbDelete ==
    \E k \in Keys, opened \in BOOLEAN :
        /\ kvLast' = IF opened
                     THEN [KvCall("lmdb_delete", k) EXCEPT !.result = "success",
                               !.flag = NotNull(store[k])]
                     ELSE [KvCall("lmdb_delete", k) EXCEPT !.result = "threw"]
        /\ store' = IF opened THEN [store EXCEPT ![k] = NoEntry] ELSE store
        /\ live' = IF opened THEN live \ { k } ELSE live
        /\ UNCHANGED <<regVars, req, resp, ran, meta, cells, txnVars, lifeVars>>

KvNext == LmdbPut \/ LmdbGet \/ LmdbExists \/ LmdbDelete

\* db_list, called without the flag, with false, or with true.
DbList ==
    /\ req = NoRequest
    /\ \E flag \in { Absent, "false", "true" }, f \in ProbeRounds(Adapters(entry)) :
          /\ meta' = DbListResult(Adapters(entry), flag, f)
          /\ req' = [entry |-> entry, name |-> "db_list", outcome |-> NoOutcome]
          /\ resp' = ToolResult("try", MetaText)
          /\ ran' = {}
    /\ UNCHANGED <<regVars, cells, txnVars, kvVars, lifeVars>>

Next ==
    \/ IndexToolCall
    \/ ServerToolCall
    \/ HttpToolsCall
    \/ DbList
    \/ DbStatus
    \/ DbHelp
    \/ HandlerCall
    \/ Deliver

(***************************************************************************)
(* Adapter lifecycle actions.  One action is the code an invocation runs   *)
(* between two awaits.  The code is written as a function from the values  *)
(* the invocation can see (the module-level slots and its own locals) to   *)
(* their values at the next await or at the return.                        *)
(***************************************************************************)
Bool(b) == IF b THEN "true" ELSE "false"

Threw == { "threw:backend", "threw:not_connected", "threw:type_error" }

\* The module-level variables and the locals of invocation t.
Cur(t) ==
    [ slot |-> slot, mongoDb |-> mongoDb, sqlJsLoaded |-> sqlJsLoaded,
      veriUrl |-> veriUrl, duckAvailable |-> duckAvailable,
      hstate |-> hstate, created |-> created,
      conn |-> conn[t], pc |-> pc[t], ret |-> ret[t] ]

\* return v / throw
Done(c, v) == [c EXCEPT !.pc = "done", !.ret = v]

\* suspend at the await named p
Await(c, p) == [c EXCEPT !.pc = p]

\* new Client(...) / createPool(...) / open(...): a fresh handle in a local
Construct(c, st) ==
    [c EXCEPT !.created = c.created + 1,
              !.hstate = [c.hstate EXCEPT ![c.created + 1] = st],
              !.conn = c.created + 1]

\* <slot> = <the handle just constructed>
Store(c) == [c EXCEPT !.slot = c.conn]

\* connect() returns handle h (the JavaScript adapters) or unit (the
\* ReScript adapters).  Called directly, that ends the invocation; called
\* from isConnected or a handler, the caller resumes after its
\* `await connect()`.
ConnectReturns(c, o, h, v) ==
    LET hh == IF ReadsSlotAfterConnect(target) THEN 0 ELSE h
        vv == IF ReadsSlotAfterConnect(target) THEN "void" ELSE v
    IN  IF o = "connect"
           THEN [c EXCEPT !.pc = "done", !.ret = vv, !.conn = hh]
           ELSE [c EXCEPT !.pc = "resume", !.conn = hh]

\* connect() throws: the rejection reaches the caller's await.
ConnectThrows(c, o) ==
    IF o = "connect" THEN Done(c, "threw:backend")
    ELSE [c EXCEPT !.pc = "resume_throw"]

\* The guard at the top of connect().
AlreadyConnectedNever(c) == FALSE

AlreadyConnected(c) ==
    IF ConnectStyle(target) = "mongoJs" THEN c.slot # 0 /\ c.mongoDb # 0
    ELSE c.slot # 0

\* connect() from its first statement to its first await or its return,
\* called by exported function o.
ConnectPrefix(c, o) ==
    LET s == ConnectStyle(target) IN
    CASE s = "stateless" -> ConnectReturns(c, o, 0, "true")
      [] s = "verisimdb" ->
            ConnectReturns([c EXCEPT !.veriUrl = TRUE], o, 0, "void")
      [] s = "duckdb" ->
            IF duckConfigured THEN Await(c, "await_duck")
            ELSE ConnectReturns(c, o, 0, Bool(c.duckAvailable))
      [] OTHER ->
            IF AlreadyConnected(c)
               THEN ConnectReturns(c, o,
                        IF s = "mongoJs" THEN c.mongoDb ELSE c.slot, "handle")
            ELSE CASE s = "sync" ->
                        LET n == Store(Construct(c, "new"))
                        IN  ConnectReturns(n, o, n.slot, "handle")
                   [] s = "syncOpen" ->
                        IF reachable
                           THEN LET n == Store(Construct(c, "ready"))
                                IN  ConnectReturns(n, o, n.slot, "handle")
                           ELSE ConnectThrows(c, o)
                   [] s = "surreal" ->
                        Await(Store(Construct(c, "new")), "await_connect")
                   [] s = "mongoJs" ->
                        Await(Store(Construct(c, "new")), "await_client")
                   [] s = "mongoRes" ->
                        Await(Construct(c, "new"), "await_client")
                   [] s = "awaitOpen" -> Await(c, "await_open")
                   [] s = "sqliteRes" ->
                        IF c.sqlJsLoaded
                           THEN LET n == Store(Construct(c, "ready"))
                                IN  ConnectReturns(n, o, n.slot, "void")
                           ELSE Await(c, "await_init")

\* A backend round trip on handle h succeeds.
RoundTripOk(c, h) ==
    /\ reachable
    /\ h # 0 => ( c.hstate[h] # "closed" /\ HandleUsable(target, c.hstate[h]) )

\* The step of a connect sequence on the handle in the local succeeds.
ConnectStepOk(c) == reachable /\ c.hstate[c.conn] # "closed"

MarkFailed(c) ==
    IF c.hstate[c.conn] = "closed" THEN c
    ELSE [c EXCEPT !.hstate = [c.hstate EXCEPT ![c.conn] = "failed"]]

MarkReady(c) == [c EXCEPT !.hstate = [c.hstate EXCEPT ![c.conn] = "ready"]]

\* Writes the values computed for invocation t back, and records the
\* invocation as the last one completed when it has returned or thrown.
Apply(t, o, r) ==
    /\ slot' = r.slot
    /\ mongoDb' = r.mongoDb
    /\ sqlJsLoaded' = r.sqlJsLoaded
    /\ veriUrl' = r.veriUrl
    /\ duckAvailable' = r.duckAvailable
    /\ hstate' = r.hstate
    /\ created' = r.created
    /\ conn' = [conn EXCEPT ![t] = r.conn]
    /\ pc' = [pc EXCEPT ![t] = r.pc]
    /\ ret' = [ret EXCEPT ![t] = r.ret]
    /\ last' = IF r.pc = "done"
                  THEN [op |-> o, ok |-> r.ret \notin Threw, conn |-> r.conn]
                  ELSE last
    /\ UNCHANGED <<gwVars, envVars>>

\* A new invocation of exported function o begins as invocation t.
Begin(t, o) ==
    /\ pc[t] = "idle"
    /\ calls < MaxCalls
    /\ calls' = calls + 1
    /\ op' = [op EXCEPT ![t] = o]
    /\ discCalled' = (discCalled \/ o = "disconnect")
    /\ pre' = [u \in Tasks |->
                 IF u = t
                    THEN [alone |-> \A v \in Tasks \ {t} : pc[v] = "idle",
                          last |-> last, created |-> created, slot |-> slot,
                          up |-> reachable]
                    ELSE [pre[u] EXCEPT !.alone = FALSE]]

\* Invocation t resumes from the await named p.
Resume(t, p) ==
    /\ pc[t] = p
    /\ UNCHANGED <<calls, op, discCalled, pre>>

LifeInit ==
    /\ target \in LifeAdapters
    /\ duckConfigured \in (IF target = "duckdb" THEN BOOLEAN ELSE {FALSE})
    /\ reachable \in BOOLEAN
    /\ everUp = reachable
    /\ everDown = ~reachable
    /\ LifeFresh
    /\ entry = "server"
    /\ regA = Len(Adapters(entry)) + 1
    /\ regT = 1
    /\ registered = AllRegistrations(entry)
    /\ BuiltAsIs
    /\ req = NoRequest
    /\ resp = NoResponse
    /\ ran = {}
    /\ meta = NoMeta
    /\ cells = NoHandles
    /\ leased = 0
    /\ txn = NoTxn
    /\ store = EmptyStore
    /\ live = {}
    /\ kvLast = NoKvCall

\* connect() is called.
StartConnect(t) ==
    /\ Begin(t, "connect")
    /\ Apply(t, "connect", ConnectPrefix(Cur(t), "connect"))

\* isConnected() is called:  try { const conn = await connect(); ...
\* The HTTP adapters, duckdb and verisimdb go straight to their request.
StartIsConnected(t) ==
    /\ Begin(t, "isConnected")
    /\ Apply(t, "isConnected",
             LET c == Cur(t) IN
             CASE ConnectStyle(target) = "stateless" -> Await(c, "await_probe")
               [] ConnectStyle(target) = "duckdb" ->
                     IF duckConfigured THEN Await(c, "await_probe")
                     ELSE Done(c, "false")
               [] ConnectStyle(target) = "verisimdb" ->
                     IF c.veriUrl THEN Await(c, "await_probe")
                     ELSE Done(c, "false")
               [] OTHER -> ConnectPrefix(c, "isConnected"))

\* A tool handler is called:  const conn = await connect(); ...
StartHandler(t) ==
    /\ Begin(t, "handler")
    /\ Apply(t, "handler",
             LET c == Cur(t) IN
             CASE ConnectStyle(target) = "stateless" -> Await(c, "await_op")
               [] ConnectStyle(target) = "duckdb" ->
                     IF duckConfigured THEN Await(c, "await_op")
                     ELSE Done(c, "configError")
               [] ConnectStyle(target) = "verisimdb" ->
                     IF c.veriUrl THEN Await(c, "await_op")
                     ELSE Done(c, "threw:not_connected")
               [] OTHER -> ConnectPrefix(c, "handler"))

\* disconnect() is called.
StartDisconnect(t) ==
    /\ Begin(t, "disconnect")
    /\ Apply(t, "disconnect",
             LET c == Cur(t)
                 d == DisconnectStyle(target)
             IN
             CASE d = "none" -> Done(c, "true")
               [] d = "verisimdb" -> Done([c EXCEPT !.veriUrl = FALSE], "void")
               [] d = "drop" ->
                     Done([c EXCEPT !.slot = 0,
                                    !.hstate = IF c.slot = 0 THEN c.hstate
                                               ELSE [c.hstate EXCEPT ![c.slot] = "dropped"]],
                          "void")
               [] d = "syncClose" ->
                     Done([c EXCEPT !.slot = 0,
                                    !.hstate = IF c.slot = 0 THEN c.hstate
                                               ELSE [c.hstate EXCEPT ![c.slot] = "closed"]],
                          "void")
               [] d = "awaitClose" ->
                     IF c.slot = 0 THEN Done(c, "void")
                     ELSE Await([c EXCEPT !.conn = c.slot], "await_close"))

\* disconnect() after `await h.close()`:  h = null.
ResumeClose(t) ==
    /\ Resume(t, "await_close")
    /\ Apply(t, op[t],
             LET c == Cur(t) IN
             Done([c EXCEPT !.slot = 0,
                            !.mongoDb = 0,
                            !.hstate = [c.hstate EXCEPT ![c.conn] = "closed"]],
                  "void"))

\* surrealdb connect() after `await db.connect(url)`.
ResumeSurrealConnect(t) ==
    /\ Resume(t, "await_connect")
    /\ Apply(t, op[t],
             LET c == Cur(t) IN
             IF ConnectStepOk(c) THEN Await(c, "await_signin")
             ELSE ConnectThrows(MarkFailed(c), op[t]))

\* surrealdb connect() after `await db.signin(...)`.
ResumeSurrealSignin(t) ==
    /\ Resume(t, "await_signin")
    /\ Apply(t, op[t],
             LET c == Cur(t) IN
             IF ConnectStepOk(c) THEN Await(c, "await_use")
             ELSE ConnectThrows(MarkFailed(c), op[t]))

\* surrealdb connect() after `await db.use(...)`:  return db.
ResumeSurrealUse(t) ==
    /\ Resume(t, "await_use")
    /\ Apply(t, op[t],
             LET c == Cur(t) IN
             IF ConnectStepOk(c)
                THEN ConnectReturns(MarkReady(c), op[t], c.slot, "handle")
                ELSE ConnectThrows(MarkFailed(c), op[t]))

\* lmdb (Deno.Kv) connect():  kv = <awaited Deno.openKv(path)>; return kv.
ResumeOpenKv(t) ==
    /\ Resume(t, "await_open")
    /\ Apply(t, op[t],
             LET c == Cur(t) IN
             IF reachable
                THEN LET n == Store(Construct(c, "ready"))
                     IN  ConnectReturns(n, op[t], n.slot, "handle")
                ELSE ConnectThrows(c, op[t]))

\* mongodb connect() after `await client.connect()`:
\* db = client.db(config.database); return db.  `client` is the module
\* variable as it is now.
ResumeMongoConnect(t) ==
    /\ Resume(t, "await_client")
    /\ ConnectStyle(target) = "mongoJs"
    /\ Apply(t, op[t],
             LET c == Cur(t) IN
             IF ~ConnectStepOk(c) THEN ConnectThrows(MarkFailed(c), op[t])
             ELSE IF c.slot = 0 THEN ConnectThrows(MarkReady(c), op[t])
             ELSE ConnectReturns([MarkReady(c) EXCEPT !.mongoDb = c.slot],
                                 op[t], c.slot, "handle"))

\* Mongodb.res connect() after `await MongoDB.Client.connect(c)`:
\* client := Some(c); database := Some(db).
ResumeMongoResConnect(t) ==
    /\ Resume(t, "await_client")
    /\ ConnectStyle(target) = "mongoRes"
    /\ Apply(t, op[t],
             LET c == Cur(t) IN
             IF ~ConnectStepOk(c) THEN ConnectThrows(MarkFailed(c), op[t])
             ELSE ConnectReturns([Store(MarkReady(c)) EXCEPT !.mongoDb = c.conn],
                                 op[t], c.conn, "void"))

\* Sqlite.res connect() after `await initSqlJs(...)`:
\* sqlJs := Some(s); database := Some(makeDatabase(s)).
ResumeInitSqlJs(t) ==
    /\ Resume(t, "await_init")
    /\ Apply(t, op[t],
             LET c == Cur(t) IN
             IF reachable
                THEN ConnectReturns(
                        Store(Construct([c EXCEPT !.sqlJsLoaded = TRUE], "ready")),
                        op[t], 0, "void")
                ELSE ConnectThrows(c, op[t]))

\* duckdb connect() after its `await httpQuery("SELECT 1")`.
ResumeDuckConnect(t) ==
    /\ Resume(t, "await_duck")
    /\ Apply(t, op[t],
             LET c == Cur(t) IN
             ConnectReturns([c EXCEPT !.duckAvailable = reachable],
                            op[t], 0, Bool(reachable)))

\* The handle a caller holds after `await connect()`: the value connect()
\* returned, or for the ReScript adapters the slot as it is read now.
HandleAfterConnect(c) ==
    IF ~ReadsSlotAfterConnect(target) THEN c.conn
    ELSE IF target = "mongodb_res" THEN c.mongoDb
    ELSE c.slot

\* isConnected() after `await connect()` returned.
ResumeIsConnected(t) ==
    /\ Resume(t, "resume")
    /\ op[t] = "isConnected"
    /\ Apply(t, op[t],
             LET c == Cur(t)
                 h == HandleAfterConnect(c)
                 p == ProbeStyle(target)
             IN
             CASE p = "none" -> Done(c, "true")
               [] p = "isSome" -> Done(c, Bool(c.slot # 0))
               [] p = "pool" ->
                     IF h = 0 THEN Done(c, "false")
                     ELSE Await([c EXCEPT !.conn = h], "await_getconn")
               [] OTHER ->
                     IF h = 0 THEN Done(c, "false")
                     ELSE Await([c EXCEPT !.conn = h], "await_probe"))

\* isConnected() when `await connect()` threw:  catch { return false; }
CatchIsConnected(t) ==
    /\ Resume(t, "resume_throw")
    /\ op[t] = "isConnected"
    /\ Apply(t, op[t], Done(Cur(t), "false"))

\* isConnected() after its probe request:  return true, or false from the
\* catch.  memcached resolves with `!err && stats`.
ProbeDone(t) ==
    /\ Resume(t, "await_probe")
    /\ Apply(t, op[t],
             LET c == Cur(t) IN
             IF RoundTripOk(c, c.conn)
                THEN Done(c, IF target = "memcached" THEN "stats" ELSE "true")
                ELSE Done(c, "false"))

\* mariadb isConnected() after `await conn.getConnection()`.
PoolGetConnection(t) ==
    /\ Resume(t, "await_getconn")
    /\ Apply(t, op[t],
             LET c == Cur(t) IN
             IF RoundTripOk(c, c.conn) THEN Await(c, "await_ping")
             ELSE Done(c, "false"))

\* mariadb isConnected() after `await connection.ping()`.
PoolPing(t) ==
    /\ Resume(t, "await_ping")
    /\ Apply(t, op[t],
             LET c == Cur(t) IN
             Done(c, Bool(RoundTripOk(c, c.conn))))

\* A handler after `await connect()` (or getClient / getDb) returned: it
\* issues its backend call on the handle.
ResumeHandler(t) ==
    /\ Resume(t, "resume")
    /\ op[t] = "handler"
    /\ Apply(t, op[t],
             LET c == Cur(t)
                 h == HandleAfterConnect(c)
             IN
             IF h = 0
                THEN Done(c, IF ReadsSlotAfterConnect(target)
                                THEN "threw:not_connected"
                                ELSE "threw:type_error")
             ELSE IF SyncOperations(target)
                THEN Done([c EXCEPT !.conn = h],
                          IF c.hstate[h] # "closed" THEN "result"
                          ELSE "threw:backend")
             ELSE Await([c EXCEPT !.conn = h], "await_op"))

\* A handler when `await connect()` threw: nothing catches it.
HandlerRethrow(t) ==
    /\ Resume(t, "resume_throw")
    /\ op[t] = "handler"
    /\ Apply(t, op[t], Done(Cur(t), "threw:backend"))

\* A handler after its backend call.
OpDone(t) ==
    /\ Resume(t, "await_op")
    /\ Apply(t, op[t],
             LET c == Cur(t) IN
             Done(c, IF RoundTripOk(c, c.conn) THEN "result"
                     ELSE "threw:backend"))

\* The caller has taken the result; the invocation is over.
Return(t) ==
    /\ pc[t] = "done"
    /\ pc' = [pc EXCEPT ![t] = "idle"]
    /\ op' = [op EXCEPT ![t] = "none"]
    /\ conn' = [conn EXCEPT ![t] = 0]
    /\ ret' = [ret EXCEPT ![t] = "none"]
    /\ pre' = [pre EXCEPT ![t] = NoPre]
    /\ UNCHANGED <<gwVars, envVars, slot, mongoDb, sqlJsLoaded, veriUrl,
                   duckAvailable, hstate, created, calls, discCalled, last>>

\* The backend comes up / goes away.
BackendUp ==
    /\ ~reachable
    /\ reachable' = TRUE
    /\ everUp' = TRUE
    /\ UNCHANGED <<gwVars, target, duckConfigured, everDown, slot, mongoDb,
                   sqlJsLoaded, veriUrl, duckAvailable, hstate, created, calls,
                   discCalled, last, pc, op, conn, ret, pre>>

BackendDown ==
    /\ reachable
    /\ reachable' = FALSE
    /\ everDown' = TRUE
    /\ pre' = [u \in Tasks |-> [pre[u] EXCEPT !.up = FALSE]]
    /\ UNCHANGED <<gwVars, target, duckConfigured, everUp, slot, mongoDb,
                   sqlJsLoaded, veriUrl, duckAvailable, hstate, created, calls,
                   discCalled, last, pc, op, conn, ret>>

LifeNext ==
    \/ \E t \in Tasks : StartConnect(t)
    \/ \E t \in Tasks : StartIsConnected(t)
    \/ \E t \in Tasks : StartHandler(t)
    \/ \E t \in Tasks : StartDisconnect(t)
    \/ \E t \in Tasks : ResumeClose(t)
    \/ \E t \in Tasks : ResumeSurrealConnect(t)
    \/ \E t \in Tasks : ResumeSurrealSignin(t)
    \/ \E t \in Tasks : ResumeSurrealUse(t)
    \/ \E t \in Tasks : ResumeOpenKv(t)
    \/ \E t \in Tasks : ResumeMongoConnect(t)
    \/ \E t \in Tasks : ResumeMongoResConnect(t)
    \/ \E t \in Tasks : ResumeInitSqlJs(t)
    \/ \E t \in Tasks : ResumeDuckConnect(t)
    \/ \E t \in Tasks : ResumeIsConnected(t)
    \/ \E t \in Tasks : CatchIsConnected(t)
    \/ \E t \in Tasks : ProbeDone(t)
    \/ \E t \in Tasks : PoolGetConnection(t)
    \/ \E t \in Tasks : PoolPing(t)
    \/ \E t \in Tasks : ResumeHandler(t)
    \/ \E t \in Tasks : HandlerRethrow(t)
    \/ \E t \in Tasks : OpDone(t)
    \/ \E t \in Tasks : Return(t)
    \/ BackendUp
    \/ BackendDown

(***************************************************************************)
(* Properties of the registry and the gateway.                             *)
(***************************************************************************)
SuccessPopulated(r) == r.via = "try" /\ r.text.present

FailurePopulated(r) ==
    /\ r.via \in {"catch", "lookup"}
    /\ IF r.form = "rpc_error" THEN r.message # Absent
       ELSE r.form = "tool_result" /\ r.text.present /\ r.text.error # Absent

IsEnvelope(r) == r.form \in {"tool_result", "rpc_result", "rpc_error"}

Answered == req.entry # "none"

\* C1: every invocation of a registered adapter operation,
\* whatever its handler returns or throws, is answered by one envelope
\* carrying exactly one of a populated success payload and a populated
\* failure payload, and no exception leaves the wrapper.
C1_EnvelopeTotality ==
    (Answered /\ req.name \in FlattenedNames(entry)) =>
        /\ IsEnvelope(resp)
        /\ SuccessPopulated(resp) # FailurePopulated(resp)

\* C2: whenever a registered operation's handler throws, the
\* failure handed back names the operation and the owning adapter and
\* carries the raw failure message, on every entry point.
C2_FailureAttribution ==
    (Answered /\ req.name \in FlattenedNames(entry) /\ req.outcome.kind = "throw"
       /\ req.outcome.thrown.type = "Error") =>
        /\ resp.form = "tool_result"
        /\ resp.via = "catch"
        /\ resp.text.error = req.outcome.thrown.message
        /\ resp.text.tool = req.name
        /\ \E a \in Range(Adapters(entry)) :
              req.name \in Range(ToolsOf(a)) /\ resp.text.adapter = AdapterName(a)

\* C3: invoking a name of the flattened table runs the handler of exactly
\* the adapter that declared it, and of no other adapter, on the
\* registered-tool path and on the HTTP tools/call lookup path.
C3_DispatchRouting ==
    (Answered /\ req.name \in UNION { Range(ToolsOf(a)) : a \in Range(Adapters(entry)) }) =>
        /\ Cardinality(ran) = 1
        /\ \A a \in Range(Adapters(entry)) :
              (<<a, req.name>> \in ran) <=> (req.name \in Range(ToolsOf(a)))

\* C3 witness: an HTTP tools/call and a registered call have each run a
\* handler of an adapter that is not the first of the registry.
C3_Witness_Http ==
    /\ req.entry = "http"
    /\ req.name = "influx_health"
    /\ ran = { <<"influxdb", "influx_health">> }

\* C4: a tools/call naming an operation no adapter declares is
\* answered with the operation-not-found failure, with no adapter named
\* and no handler run, and never with an exception or another error.
C4_OperationNotFound ==
    (req.entry = "http" /\ req.name \notin FlattenedNames("server")) =>
        /\ resp.form = "rpc_error"
        /\ resp.code = -32601
        /\ resp.message = "Tool not found"
        /\ resp.text.adapter = Absent
        /\ ran = {}

\* C10: in the registry all adapter names are pairwise distinct and every
\* tool name is registered by at most one adapter.
C10_Uniqueness ==
    /\ \A i, j \in 1..Len(registered) :
          registered[i].tool = registered[j].tool =>
              registered[i].adapter = registered[j].adapter
    /\ \A i, j \in 1..Len(Adapters(entry)) :
          (i < regA /\ j < regA /\ i # j) =>
              AdapterName(Adapters(entry)[i]) # AdapterName(Adapters(entry)[j])

\* C10 witness: the loop has walked the whole server.js registry.
C10_Witness ==
    /\ entry = "server"
    /\ regA > Len(ServerAdapters)
    /\ Len(registered) = Cardinality(FlattenedNames("server"))
    /\ Len(registered) > 100

\* C12: db_status asks every registered adapter, puts each adapter in
\* exactly one of its two lists (connected when isConnected() gave true,
\* disconnected when it gave false or threw), and its summary counts the
\* connected list against the number of registered adapters.
C12_DbStatusPartition ==
    meta.op = "db_status" =>
        /\ meta.probed = Adapters(entry)
        /\ \A i \in 1..Len(Adapters(entry)) :
              LET a == Adapters(entry)[i] IN
              /\ (a \in Range(meta.connected)) # (a \in Range(meta.disconnected))
              /\ meta.inputs[i] = "true" => a \in Range(meta.connected)
              /\ meta.inputs[i] \in { "false", "threw" } => a \in Range(meta.disconnected)
        /\ Len(meta.connected) + Len(meta.disconnected) = Len(Adapters(entry))
        /\ meta.count = Len(meta.connected)
        /\ meta.total = Len(Adapters(entry))

\* db_status has answered a round in which one adapter threw, one gave
\* true and the others false: one name is connected.
C12_Witness ==
    /\ meta.op = "db_status"
    /\ \E i, j \in 1..Len(meta.inputs) :
          meta.inputs[i] = "threw" /\ meta.inputs[j] = "true"
    /\ meta.count = 1
    /\ Len(meta.disconnected) = meta.total - 1
    /\ resp.form = "tool_result"

\* C13: db_help called with a name that is no registered adapter answers
\* with the "unknown adapter" text as a normal response and lists no
\* operation catalogue for that name.
C13_DbHelpUnknownAdapter ==
    (meta.op = "db_help" /\ meta.arg \notin { Absent, "" }
        /\ meta.arg \notin Range(Adapters(entry))) =>
        /\ resp.form = "tool_result"
        /\ meta.kind = "unknown"
        /\ meta.names = {}

\* C14: every operation a caller has invoked successfully, meta tool or
\* adapter tool, is a name that some db_help answer lists.
C14_Enumerability ==
    (req # NoRequest /\ resp.form = "tool_result" /\ resp.via = "try") =>
        req.name \in DbHelpNames(entry)

\* C15: an update or delete handler that takes `where`, called without
\* it, refuses: the caller gets a failure, connect() is not called and no
\* statement goes to the backend.
C15_MissingWhereRefused ==
    (meta.op = "handler" /\ meta.call.family = "destructive"
        /\ meta.call.arg = Absent) =>
        /\ meta.effects = {}
        /\ resp.form = "tool_result"
        /\ resp.text.error # Absent

\* C16: a handler called with a required argument left out, or with text
\* that is not JSON in a JSON-typed argument, rejects with an Error and
\* does not hand the operation to the backend.
C16_InvalidInputRejected ==
    (meta.op = "handler" /\ meta.call.family = "validated"
        /\ meta.call.arg \in { "missing", "malformed" }) =>
        /\ req.outcome.kind = "throw"
        /\ req.outcome.thrown.type = "Error"
        /\ "statement" \notin meta.effects

\* C17: when the backend call of a handler fails, what the caller gets
\* carries the backend's own message, not a message the handler made up.
C17_RawCausePreserved ==
    (meta.op = "handler" /\ meta.call.family = "cache" /\ ~meta.call.up) =>
        /\ resp.form = "tool_result"
        /\ resp.text.error = RawMessage

\* C18: a configuration or validation failure found inside an adapter
\* reaches the caller as a failure naming the operation and the adapter,
\* not as a success whose payload has an error field.
C18_FailureEnvelope ==
    (meta.op = "handler" /\ meta.call.family = "selfcheck"
        /\ meta.call.arg = "missing") =>
        /\ FailurePopulated(resp)
        /\ ~SuccessPopulated(resp)
        /\ resp.text.tool = meta.call.tool
        /\ resp.text.adapter = AdapterName(meta.call.adapter)

\* C19: an operation of one adapter changes the connection variable of no
\* other adapter, whether it succeeds or fails.
C19_SeparateConnectionState ==
    [][ \A b \in Modules(entry) :
          b # meta'.call.adapter =>
              cells'[ModuleVariable(b)] = cells[ModuleVariable(b)] ]_<<meta, cells>>

\* A connect() of one adapter has failed while another adapter holds its
\* handle.
C19_Witness ==
    /\ meta.op = "connect"
    /\ ~meta.call.up
    /\ \E b \in Modules(entry) : b # meta.call.adapter /\ cells[ModuleVariable(b)] = "handle"

\* C20: db_list called without the check-connections flag calls no
\* isConnected() and reports no connection state; called with it, it asks
\* every adapter and reports one state per adapter.
C20_DbListConnectionsOnlyOnFlag ==
    meta.op = "db_list" =>
        /\ meta.total = Len(Adapters(entry))
        /\ meta.arg # "true" =>
              meta.probed = << >> /\ meta.flagged = << >> /\ meta.effects = {}
        /\ meta.arg = "true" =>
              meta.probed = Adapters(entry) /\ Len(meta.flagged) = meta.total

\* db_list has answered a call that did not pass the flag.
C20_Witness ==
    /\ meta.op = "db_list"
    /\ meta.arg = Absent
    /\ meta.probed = << >>
    /\ meta.names = FlattenedNames(entry)
    /\ resp.form = "tool_result"

\* C21: when the process has shut down, disconnect() has been invoked on
\* every registered adapter.
C21_Teardown ==
    meta.op = "shutdown" => Range(meta.probed) = Range(Adapters(entry))

\* The adapters of the registration log r in the order in which the loop
\* first registered a tool of theirs.
RegistrationOrder(r) ==
    LET first == { i \in 1..Len(r) : \A j \in 1..(i - 1) : r[j].adapter # r[i].adapter } IN
    [ k \in 1..Cardinality(first) |->
        r[CHOOSE i \in first : Cardinality({ j \in first : j < i }) = k - 1].adapter ]

\* C22: every db_list answer, with or without the flag, lists the adapters
\* in the order in which they were registered, so repeated calls agree.
C22_ListingStability ==
    meta.op = "db_list" => meta.listed = RegistrationOrder(registered)

\* db_list has answered with the connection check on, one adapter's probe
\* having thrown.
C22_Witness ==
    /\ meta.op = "db_list"
    /\ meta.arg = "true"
    /\ \E i \in 1..Len(meta.inputs) : meta.inputs[i] = "threw"
    /\ Len(meta.listed) = Len(Adapters(entry))
    /\ meta.listed[1] = registered[1].adapter

\* C23: every tool the loop has registered starts with a prefix derived
\* from its owning adapter: the name, the key, either without a trailing
\* "db", or the first four characters of the name, followed by "_".
C23_ToolNamePrefix ==
    \A i \in 1..Len(registered) :
        HasValidPrefix(registered[i].adapter, registered[i].tool)

\* C27: on the HTTP handler's own request path a tools/call for a name
\* that tools/list returns is not answered with tool-not-found.
C27_ListedIsCallable ==
    (req.entry = "http" /\ req.name \in HttpListedNames) =>
        ~(resp.form = "rpc_error" /\ resp.code = -32601)

\* The loop has finished and the process goes on to serve calls.
RegistryBuilt == regA > Len(Walked) /\ ~regFailed

Completed(t, o) == pc[t] = "done" /\ op[t] = o

\* Invocation t ran with no other invocation in flight on the adapter.
RanAlone(t) == pre[t].alone

\* C5: for an adapter whose backend is entirely unreachable, every call of
\* isConnected(), the first one and every later one, in any sequence with
\* other calls on that adapter, returns false and does not throw.
C5_IsConnectedIsolation ==
    ~everUp =>
        \A t \in Tasks : Completed(t, "isConnected") => ret[t] = "false"

\* Invocation t is a connect() called right after a connect() that
\* returned normally, with nothing else in flight on the adapter.
SecondConnectInARow(t) ==
    /\ Completed(t, "connect")
    /\ RanAlone(t)
    /\ pre[t].last.op = "connect"
    /\ pre[t].last.ok

\* C6: calling connect() twice in a row leaves the adapter as one call
\* does: the second call raises no error, constructs no further connection
\* or client, leaves the slot as the first call left it and yields the
\* handle the first call yielded.
C6_ConnectIdempotent ==
    \A t \in Tasks :
        SecondConnectInARow(t) =>
            /\ ret[t] \notin Threw
            /\ created = pre[t].created
            /\ slot = pre[t].slot
            /\ conn[t] = pre[t].last.conn

\* A second connect() in a row has returned the handle that the first one
\* constructed and stored.
C6_Witness ==
    \E t \in Tasks :
        /\ SecondConnectInARow(t)
        /\ created = 1
        /\ slot = 1
        /\ conn[t] = 1
        /\ ret[t] = "handle"

\* Invocation t holds a handle it got from connect() and works on it.
UsesHandle(t) ==
    /\ pc[t] \in { "await_probe", "await_getconn", "await_ping", "await_op" }
    /\ conn[t] # 0

\* C7: when invocations race into a never-connected adapter (its backend
\* reachable all along, disconnect() never called), one handle at most is
\* constructed and every invocation works on the handle in the slot.
C7_ConcurrentFirstConnect ==
    (~everDown /\ ~discCalled) =>
        /\ created <= 1
        /\ \A t \in Tasks : UsesHandle(t) => conn[t] = slot

C9_LazyConnect ==
    \A t \in Tasks :
        (Completed(t, "handler") /\ RanAlone(t) /\ ~everDown) =>
            ret[t] \notin Threw

\* C24: a handler that has issued its backend call on a handle holds a
\* handle whose connect sequence had completed: for the clients whose
\* connect() awaits a sequence on the handle (surrealdb: connect, signin,
\* use; mongodb: client.connect), not one still in that sequence and not
\* one on which the sequence failed.
C24_HandleReadyBeforeUse ==
    \A t \in Tasks :
        ( /\ op[t] = "handler"
          /\ pc[t] = "await_op"
          /\ conn[t] # 0
          /\ ConnectStyle(target) \in { "surreal", "mongoJs", "mongoRes" } ) =>
            hstate[conn[t]] \notin { "new", "failed" }

\* Invocation t was called right after a connect() that threw, ran with
\* nothing else in flight, and the backend was reachable from its call to
\* its return; disconnect() was never called.
AfterFailedConnect(t) ==
    /\ pc[t] = "done"
    /\ RanAlone(t)
    /\ pre[t].up
    /\ pre[t].last.op = "connect"
    /\ ~pre[t].last.ok
    /\ ~discCalled

\* C25: after a failed connection attempt, once the backend is reachable,
\* the next handler call succeeds and the next isConnected() returns true,
\* with no disconnect() in between.
C25_RecoveryAfterFailedConnect ==
    \A t \in Tasks :
        AfterFailedConnect(t) =>
            /\ op[t] = "handler" => ret[t] \notin Threw
            /\ op[t] = "isConnected" => ret[t] = "true"

\* The adapter holds what its connect() leaves behind on success.
HoldsConnection ==
    CASE ConnectStyle(target) = "stateless" -> TRUE
      [] ConnectStyle(target) = "verisimdb" -> veriUrl
      [] ConnectStyle(target) = "duckdb"    -> duckAvailable
      [] ConnectStyle(target) = "mongoJs"   -> slot # 0 /\ mongoDb # 0
      [] OTHER                              -> slot # 0

\* C26: isConnected() as the first call ever made on an adapter, with the
\* backend reachable (and configured) throughout, connects by itself:
\* it returns true (memcached: its truthy stats object) and leaves the
\* adapter connected.
C26_ProbeByConnecting ==
    \A t \in Tasks :
        ( /\ Completed(t, "isConnected")
          /\ RanAlone(t)
          /\ pre[t].up
          /\ pre[t].last = NoLast
          /\ target = "duckdb" => duckConfigured ) =>
            /\ Truthy(ret[t])
            /\ HoldsConnection

\* C28: every connection the MariaDB adapter takes from its pool, in
\* isConnected() and in maria_transaction, is released before the call
\* completes, on success and on every failure path, so that no connection
\* stays out of the pool between calls.
C28_PoolConnectionsReleased ==
    /\ txn.acquired => txn.released
    /\ leased = 0

\* C29: sqlite_transaction and maria_transaction are all-or-nothing: when
\* every statement and the commit succeed all effects are committed; when a
\* statement or the commit fails nothing persists, the caller gets that
\* original error, and no transaction is left open on the connection.
C29_TransactionAllOrNothing ==
    txn.tool \in { "sqlite_transaction", "maria_transaction" } =>
        /\ txn.first = "none" => txn.result = "success" /\ txn.persisted = Statements
        /\ txn.first \in { "s1", "s2", "commit" } =>
              /\ txn.persisted = {}
              /\ txn.result = "threw"
              /\ txn.error = txn.first
              /\ ~txn.open

\* C30: once lmdb_put(k, v) has succeeded and until k is deleted, lmdb_get(k)
\* reports found = true, lmdb_exists(k) reports exists = true and the next
\* lmdb_delete(k) reports deleted = true, whatever value v was put.
C30_PutThenFound ==
    /\ kvLast.tool \in { "lmdb_get", "lmdb_exists", "lmdb_delete" }
    /\ kvLast.result = "success"
    /\ kvLast.wasLive
    => kvLast.flag = "true"

vars == <<gwVars, lifeVars>>

Spec == Init /\ [][Next]_vars

SpecRegistry == RegInit /\ [][RegNext]_vars

SpecRegistryAdded == RegInitAdded /\ [][RegNext]_vars

SpecModules == ModuleInit /\ [][ModuleNext]_vars

SpecLife == LifeInit /\ [][LifeNext]_vars

SpecTransactions == ModuleInit /\ [][TxnNext]_vars

SpecKv == ModuleInit /\ [][KvNext]_vars

=============================================================================
